---- MODULE Spec2Model ----
(***************************************************************************)
(* Resumable CSV import of the customer panel backend:                     *)
(*   ImportService.startImport      (import.service.ts)                    *)
(*   WorkerManager                  (workers/worker.manager.ts)            *)
(*   csv-import.worker run/flushBatch (workers/csv-import.worker.ts)       *)
(*                                                                         *)
(* Scaling.  One line of the CSV file (header included) is one byte, and   *)
(* MiB (1024*1024 in the source) is four bytes, so a read chunk holds four *)
(* lines.  The worker's batch-size floor (100) and default (1000) are      *)
(* scaled to 2 and 3.  A SHA-256 digest is modelled by the string tuple it *)
(* is computed from (the hash is treated as injective).                    *)
(***************************************************************************)
EXTENDS Integers, Sequences, FiniteSets, TLC

\* ------------------------------------------------------------ constants --
MiB == 4
MinBatchSize == 2
DefaultBatchSize == 3
\* a configured IMPORT.BATCH_SIZE below the worker's floor
SmallBatchSize == 1
\* TOTAL_ROWS_DEFAULT (2,000,000), RECENT_ROWS_DEFAULT (20) and the cap of
\* getRecentCustomers (200), scaled
TotalRowsDefault == 4
RecentRowsDefault == 1
RecentCap == 2

\* budgets of the environment: how often it calls startImport, and how many
\* faults (a kill of the process, a failing database call) it injects
MaxCalls == 2
MaxFaults == 1
ResFaults == 2
\* the same for the supervisor's callbacks (SpecEvt): calls, faults, and
\* for the progress stream (SpecSub): calls, faults, subscriptions
EvtCalls == 2
EvtFaults == 2
SubFaults == 1
MaxSubs == 2
ObsCalls == 2
ObsFaults == 1
CastFaults == 1
CastSubs == 2
FailFaults == 2
SnapFaults == 1
SnapCalls == 2
PathCalls == 2
LiveFaults == 1
LiveCalls == 2

NoJob == 0
NoWorker == 0
NoHash == <<>>
NoRow == [customerId |-> ""]

Max(a, b) == IF a >= b THEN a ELSE b
Min(a, b) == IF a <= b THEN a ELSE b

Range(s) == {s[i] : i \in DOMAIN s}

\* ------------------------------------------------------------ CSV files --
Header == <<"Customer Id", "First Name", "Email">>

\* two calls may overlap on this one
FileTiny == << <<"C1", "a", "">>, <<"C2", "b", "">>, <<"C3", "c", "">> >>
\* five distinct customers (scenario S4 scaled)
FileDistinct == << <<"C1", "a", "">>, <<"C2", "b", "">>, <<"C3", "c", "">>,
                   <<"C4", "d", "">>, <<"C5", "e", "">> >>
\* a customerId repeated inside one batch, then one more row
FileRepeat == << <<"C1", "a", "">>, <<"C2", "b", "">>, <<"C1", "c", "">>,
                 <<"C3", "d", "">> >>
\* a row without identifier, an e-mail used as identifier, a blank name
FileMessy == << <<"C1", "a", "A@X">>, <<"", "x", "">>, <<"", "b", "B@X">>,
                <<"C1", "", "">> >>

\* a customer seen again after its batch was written
FileAgain == << <<"C1", "a", "">>, <<"C2", "b", "">>, <<"C1", "c", "">> >>

SupFiles == {FileTiny}

\* one batch holds the whole file
FileShort == << <<"C1", "a", "">>, <<"C2", "b", "">> >>
ResFiles == {FileDistinct, FileRepeat, FileMessy}

\* ------------------------------------------------------------ the mapper --
\* String.prototype.toLowerCase on the e-mail values that occur in the files
ToLower(s) ==
  CASE s = "A@X" -> "a@x"
    [] s = "B@X" -> "b@x"
    [] OTHER -> s

RECURSIVE pick(_, _)
pick(record, keys) ==
  IF keys = <<>> THEN ""
  ELSE IF Head(keys) \in DOMAIN record /\ record[Head(keys)] # ""
       THEN record[Head(keys)]
       ELSE pick(record, Tail(keys))

normalizeEmail(value) == IF value = "" THEN "" ELSE ToLower(value)

\* The modelled headers carry three of the twelve fields; the nine others
\* are picked the same way and are undefined ("") for every modelled record.
mapCsvRecordToCustomer(record) ==
  LET customerId == pick(record, <<"Customer Id", "customer_id", "customerid", "id">>)
      firstName == pick(record, <<"firstName", "first_name", "firstname", "First Name">>)
      email == normalizeEmail(pick(record, <<"mail", "email_address", "Email">>))
      effectiveCustomerId == IF customerId # "" THEN customerId ELSE email
  IN IF effectiveCustomerId = "" THEN NoRow
     ELSE [customerId |-> effectiveCustomerId, firstName |-> firstName, email |-> email]

computeSourceHash(row) == <<row.customerId, row.firstName, row.email>>

\* csv-parse with columns:true: the first line of the STREAM names the
\* columns; with a repeated column name the last cell wins.
ParseRecord(columns, line) ==
  [k \in Range(columns) |->
     line[CHOOSE i \in DOMAIN columns :
            /\ columns[i] = k
            /\ \A m \in DOMAIN columns : columns[m] = k => m <= i]]

\* the lines of the file, header first; line at byte offset o is AllLines[o+1]
AllLines(f) == <<Header>> \o f
FileSize(f) == Len(f) + 1

\* ------------------------------------------------ mapped-valid rows of F --
\* the spellings of a header name that differ in letter case only
Spellings(h) ==
  CASE h = "Customer Id" -> {"Customer Id", "customer id", "CUSTOMER ID"}
    [] h = "First Name" -> {"First Name", "first name", "FIRST NAME"}
    [] h = "Email" -> {"Email", "email", "EMAIL"}

\* the header rows that name the three columns, in any order and spelling
HeaderRows ==
  {cols \in [1..Len(Header) -> UNION {Spellings(h) : h \in Range(Header)}] :
     \A h \in Range(Header) :
       Cardinality({i \in DOMAIN cols : cols[i] \in Spellings(h)}) = 1}

\* the cell of a line under the column whose name is a spelling of h
CellOf(cols, line, h) == line[CHOOSE i \in DOMAIN cols : cols[i] \in Spellings(h)]

\* the fingerprint of a parsed record, none when the mapper returns null
HashOf(record) ==
  LET row == mapCsvRecordToCustomer(record)
  IN IF row = NoRow THEN NoHash ELSE computeSourceHash(row)

RECURSIVE ValidItems(_)
ValidItems(f) ==
  IF f = <<>> THEN <<>>
  ELSE LET row == mapCsvRecordToCustomer(ParseRecord(Header, Head(f)))
       IN IF row = NoRow THEN ValidItems(Tail(f))
          ELSE <<[row |-> row, sourceHash |-> computeSourceHash(row)]>> \o ValidItems(Tail(f))

\* ------------------------------------------------------------- the state --
VARIABLES
  file,       \* the rows of the CSV file at the configured path (never changes)
  jobs,       \* table ImportJob: sequence of rows, the id is the index
  recent,     \* ImportJob ids, most recently updated first (updatedAt order)
  customers,  \* table Customer: customerId -> row
  sup,        \* WorkerManager: [worker, currentJobId]
  workers,    \* worker threads ever spawned: sequence of run() frames
  inbox,      \* per worker: messages posted and not yet handled by the parent
  calls,      \* startImport invocations: their position, locals and response
  phase,      \* "boot" (onModuleInit not run), "booting" (awaiting), "up"
  bootJob,    \* onModuleInit's local 'running' (a copy of the row read)
  lastEvent,  \* the last message published on events$
  budget,     \* what the environment may still do: [calls, faults, stops, subs]
              \* and the batch sizes its requests carry: sizes
  committed,  \* history: sourceHash of every row whose flushBatch returned
  handlers,   \* WorkerManager's async callbacks in progress ('error', 'exit',
              \* stopWorker): their captured arguments and position
  published,  \* history: what events$.next has emitted since the process started
  subs,       \* progressStream subscriptions: position, snapshot read, frames
  progress,   \* the last response of GET /customers/progress
  mapped,     \* two parsed records, and what the mapper and the hash made of each
  retry,      \* one executeWithRetry call: its arguments, loop counter and outcome
  buffer      \* one BatchBuffer, the calls made on it and the microtask queue

\* the supervisor's callbacks and the observers of its event stream
obs == <<handlers, published, subs>>

\* the utilities that are exercised on their own
util == <<retry, buffer>>

vars == <<file, jobs, recent, customers, sup, workers, inbox, calls, phase,
          bootJob, lastEvent, budget, committed, obs, progress, mapped, util>>

Undefined == -1

\* executeWithRetry not called; no BatchBuffer constructed
NotCalled == [pc |-> "none"]
NotBuilt == [pc |-> "none"]
NoEvent == [type |-> "none"]
NoJobRow == [id |-> NoJob]

JobIds == DOMAIN jobs
WorkerIds == DOMAIN workers
CallIds == DOMAIN calls

\* prisma.importJob.update: every write refreshes updatedAt
Touch(j) == <<j>> \o SelectSeq(recent, LAMBDA x : x # j)

RunningIds == {j \in JobIds : jobs[j].status = "RUNNING"}

\* findFirst({where: {status: RUNNING}, orderBy: {updatedAt: "desc"}})
FindLatestRunning ==
  IF RunningIds = {} THEN NoJob
  ELSE recent[CHOOSE i \in DOMAIN recent :
                /\ recent[i] \in RunningIds
                /\ \A m \in DOMAIN recent : recent[m] \in RunningIds => i <= m]

\* the row as the caller holds it after the query
RowCopy(j) == [id |-> j] @@ jobs[j]

isRunning == sup.worker # NoWorker

\* ---------------------------------------------------------------- worker --
toBigInt(v, fallback) == IF v = Undefined THEN fallback ELSE v

\* mutant: run() takes the batch size as handed over, without the floor
RunInitNoFloor(payload) ==
  LET batchSize == IF payload.batchSize = Undefined
                   THEN DefaultBatchSize ELSE payload.batchSize
      resumeStartBytes == toBigInt(payload.resume.startBytes, 0)
      overlapBytes == toBigInt(payload.resume.overlapBytes, MiB)
      lastRowHashMarker == payload.resume.lastRowHash
      streamStart == IF resumeStartBytes > overlapBytes
                     THEN resumeStartBytes - overlapBytes ELSE 0
  IN [pc |-> "loop",
      workerData |-> payload,
      jobId |-> payload.jobId,
      batchSize |-> batchSize,
      streamStart |-> streamStart,
      marker |-> lastRowHashMarker,
      seenResumeMarker |-> (lastRowHashMarker = NoHash),
      absoluteBytesRead |-> streamStart,
      pos |-> streamStart + 1,
      rowsProcessed |-> toBigInt(payload.resume.rowsProcessed, 0),
      rowsInserted |-> toBigInt(payload.resume.rowsInserted, 0),
      batch |-> <<>>,
      existing |-> {},
      lastRowHash |-> NoHash,
      wrote |-> FALSE,
      sentBytes |-> 0,
      final |-> FALSE,
      err |-> ""]

\* the frame of run() before its first await (csv-import.worker.ts 322-379)
RunInit(payload) ==
  LET batchSize == Max(MinBatchSize, IF payload.batchSize = Undefined
                                     THEN DefaultBatchSize ELSE payload.batchSize)
      resumeStartBytes == toBigInt(payload.resume.startBytes, 0)
      overlapBytes == toBigInt(payload.resume.overlapBytes, MiB)
      lastRowHashMarker == payload.resume.lastRowHash
      streamStart == IF resumeStartBytes > overlapBytes
                     THEN resumeStartBytes - overlapBytes ELSE 0
  IN [pc |-> "loop",
      workerData |-> payload,
      jobId |-> payload.jobId,
      batchSize |-> batchSize,
      streamStart |-> streamStart,
      marker |-> lastRowHashMarker,
      seenResumeMarker |-> (lastRowHashMarker = NoHash),
      absoluteBytesRead |-> streamStart,
      pos |-> streamStart + 1,
      rowsProcessed |-> toBigInt(payload.resume.rowsProcessed, 0),
      rowsInserted |-> toBigInt(payload.resume.rowsInserted, 0),
      batch |-> <<>>,
      existing |-> {},
      lastRowHash |-> NoHash,
      wrote |-> FALSE,
      sentBytes |-> 0,
      final |-> FALSE,
      err |-> ""]

NoPayload == [jobId |-> NoJob]

\* a thread that no longer runs keeps only its job id
Retired(w, how) ==
  [pc |-> how, workerData |-> NoPayload, jobId |-> workers[w].jobId, batchSize |-> 0, streamStart |-> 0,
   marker |-> NoHash, seenResumeMarker |-> TRUE, absoluteBytesRead |-> 0,
   pos |-> 0, rowsProcessed |-> 0, rowsInserted |-> 0, batch |-> <<>>,
   existing |-> {}, lastRowHash |-> NoHash, wrote |-> FALSE, sentBytes |-> 0,
   final |-> FALSE, err |-> ""]

Live(w) == workers[w].pc \notin {"exited", "killed", "crashed", "terminated", "past"}

\* parentPort.postMessage: delivered only while the parent listens to w
post(w, msg) ==
  IF sup.worker = w THEN [inbox EXCEPT ![w] = Append(@, msg)] ELSE inbox

\* what the parent hears of a thread that ends: its last message or its
\* uncaught exception, then 'exit' with the exit code
postAll(w, msgs) ==
  IF sup.worker = w THEN [inbox EXCEPT ![w] = @ \o msgs] ELSE inbox

ExitEvent(code) == [type |-> "exit", code |-> code]

\* Map.set keeps the position of the first occurrence of a key and the
\* value of the last one
RECURSIVE SetAll(_, _)
SetAll(acc, items) ==
  IF items = <<>> THEN acc
  ELSE LET it == Head(items)
           hit == {i \in DOMAIN acc : acc[i].row.customerId = it.row.customerId}
       IN SetAll(IF hit = {} THEN Append(acc, it)
                 ELSE [acc EXCEPT ![CHOOSE i \in hit : TRUE] = it],
                 Tail(items))

byCustomerId(items) == SetAll(<<>>, items)

\* prisma update: an undefined field leaves the column as it is
ApplyUpdate(old, data) ==
  [customerId |-> data.customerId,
   firstName |-> IF data.firstName # "" THEN data.firstName ELSE old.firstName,
   email |-> IF data.email # "" THEN data.email ELSE old.email]

RECURSIVE CreateMany(_, _)
CreateMany(table, rows) ==
  IF rows = <<>> THEN table
  ELSE LET r == Head(rows)
       IN CreateMany(IF r.customerId \in DOMAIN table THEN table
                     ELSE table @@ (r.customerId :> r),
                     Tail(rows))

RECURSIVE UpdateAll(_, _)
UpdateAll(table, rows) ==
  IF rows = <<>> THEN table
  ELSE LET r == Head(rows)
       IN UpdateAll([table EXCEPT ![r.customerId] = ApplyUpdate(@, r)], Tail(rows))

Rows(items) == [i \in DOMAIN items |-> items[i].row]
Hashes(items) == {items[i].sourceHash : i \in DOMAIN items}

Inserts(w) == SelectSeq(Rows(byCustomerId(workers[w].batch)),
                        LAMBDA r : r.customerId \notin workers[w].existing)
Updates(w) == SelectSeq(Rows(byCustomerId(workers[w].batch)),
                        LAMBDA r : r.customerId \in workers[w].existing)

SetW(w, r) == [workers EXCEPT ![w] = r]

\* fileStream.on("data"): one more chunk of at most highWaterMark bytes
ReadChunk(w) ==
  /\ w \in WorkerIds
  /\ workers[w].pc \in {"loop", "probe", "insert", "update", "ckpt"}
  /\ workers[w].absoluteBytesRead < FileSize(file)
  /\ workers' = SetW(w, [workers[w] EXCEPT
        !.absoluteBytesRead = Min(@ + MiB, FileSize(file))])
  /\ UNCHANGED <<file, progress, mapped, util, jobs, recent, customers, sup, inbox, calls, phase,
                 bootJob, lastEvent, budget, committed, obs>>

\* one turn of "for await (const record of parser)" up to the next await
NextRecord(w) ==
  /\ w \in WorkerIds
  /\ workers[w].pc = "loop"
  /\ ~workers[w].final
  /\ workers[w].pos < FileSize(file)
  /\ workers[w].pos + 1 <= workers[w].absoluteBytesRead
  /\ LET me == workers[w]
         columns == AllLines(file)[me.streamStart + 1]
         record == ParseRecord(columns, AllLines(file)[me.pos + 1])
         row == mapCsvRecordToCustomer(record)
         sourceHash == computeSourceHash(row)
         batch == Append(me.batch, [row |-> row, sourceHash |-> sourceHash])
     IN workers' = SetW(w,
          IF row = NoRow THEN [me EXCEPT !.pos = @ + 1]
          ELSE IF ~me.seenResumeMarker
          THEN [me EXCEPT !.pos = @ + 1,
                          !.seenResumeMarker = (sourceHash = me.marker)]
          ELSE [me EXCEPT !.pos = @ + 1,
                          !.rowsProcessed = @ + 1,
                          !.batch = batch,
                          !.pc = IF Len(batch) >= me.batchSize THEN "probe" ELSE "loop"])
  /\ UNCHANGED <<file, progress, mapped, util, jobs, recent, customers, sup, inbox, calls, phase,
                 bootJob, lastEvent, budget, committed, obs>>

\* the parser ends: flush what remains, else go to the forced progress write
EndOfStream(w) ==
  /\ w \in WorkerIds
  /\ workers[w].pc = "loop"
  /\ ~workers[w].final
  /\ workers[w].pos >= FileSize(file)
  /\ workers[w].absoluteBytesRead >= FileSize(file)
  /\ workers' = SetW(w, [workers[w] EXCEPT
        !.final = TRUE,
        !.wrote = IF workers[w].batch = <<>> THEN TRUE ELSE @,
        !.sentBytes = IF workers[w].batch = <<>> THEN workers[w].absoluteBytesRead ELSE @,
        !.pc = IF workers[w].batch = <<>> THEN "ckpt" ELSE "probe"])
  /\ UNCHANGED <<file, progress, mapped, util, jobs, recent, customers, sup, inbox, calls, phase,
                 bootJob, lastEvent, budget, committed, obs>>

\* flushBatch: dedup, then the existence probe (findMany)
FlushProbe(w) ==
  /\ w \in WorkerIds
  /\ workers[w].pc = "probe"
  /\ LET ids == {byCustomerId(workers[w].batch)[i].row.customerId :
                   i \in DOMAIN byCustomerId(workers[w].batch)}
         existing == ids \cap DOMAIN customers
     IN workers' = SetW(w, [workers[w] EXCEPT
          !.existing = existing,
          !.pc = IF ids \ existing # {} THEN "insert" ELSE "update"])
  /\ UNCHANGED <<file, progress, mapped, util, jobs, recent, customers, sup, inbox, calls, phase,
                 bootJob, lastEvent, budget, committed, obs>>

\* mutant: insertedOrUpdated counts the rows found by the probe twice
AfterFlushTwice(me, admit) ==
  LET batch == byCustomerId(me.batch)
      go == me.final \/ ~me.wrote \/ admit
  IN [me EXCEPT
        !.rowsInserted = @ + Len(batch) + Cardinality(me.existing),
        !.lastRowHash = batch[Len(batch)].sourceHash,
        !.batch = <<>>,
        !.existing = {},
        !.wrote = IF go THEN TRUE ELSE @,
        !.sentBytes = IF go THEN me.absoluteBytesRead ELSE @,
        !.pc = IF go THEN "ckpt" ELSE "loop"]

\* run() after flushBatch returned: counters, marker, then maybePersistProgress
\* up to its await (admit: progressUpdateEveryMs has elapsed)
AfterFlush(me, admit) ==
  LET batch == byCustomerId(me.batch)
      go == me.final \/ ~me.wrote \/ admit
  IN [me EXCEPT
        !.rowsInserted = @ + Len(batch),
        !.lastRowHash = batch[Len(batch)].sourceHash,
        !.batch = <<>>,
        !.existing = {},
        !.wrote = IF go THEN TRUE ELSE @,
        !.sentBytes = IF go THEN me.absoluteBytesRead ELSE @,
        !.pc = IF go THEN "ckpt" ELSE "loop"]

\* mutant: the bulk insert is not awaited and its rows are lost, run() goes on
FlushInsertLost(w) ==
  /\ w \in WorkerIds
  /\ workers[w].pc = "insert"
  /\ \E admit \in BOOLEAN :
       workers' = SetW(w,
          IF Updates(w) # <<>> THEN [workers[w] EXCEPT !.pc = "update"]
          ELSE AfterFlush(workers[w], admit))
  /\ UNCHANGED <<file, progress, mapped, util, jobs, recent, customers, sup, inbox, calls, phase,
                 bootJob, lastEvent, budget, committed, obs>>

\* flushBatch: createMany({data: inserts, skipDuplicates: true})
FlushInsert(w) ==
  /\ w \in WorkerIds
  /\ workers[w].pc = "insert"
  /\ customers' = CreateMany(customers, Inserts(w))
  /\ \E admit \in BOOLEAN :
       workers' = SetW(w,
          IF Updates(w) # <<>> THEN [workers[w] EXCEPT !.pc = "update"]
          ELSE AfterFlush(workers[w], admit))
  /\ committed' = IF Updates(w) # <<>> THEN committed
                  ELSE committed \cup Hashes(workers[w].batch)
  /\ UNCHANGED <<file, progress, mapped, util, jobs, recent, sup, inbox, calls, phase, bootJob,
                 lastEvent, budget, obs>>

\* flushBatch: $transaction of the per-row updates
FlushUpdate(w) ==
  /\ w \in WorkerIds
  /\ workers[w].pc = "update"
  /\ customers' = UpdateAll(customers, Updates(w))
  /\ \E admit \in BOOLEAN : workers' = SetW(w, AfterFlush(workers[w], admit))
  /\ committed' = committed \cup Hashes(workers[w].batch)
  /\ UNCHANGED <<file, progress, mapped, util, jobs, recent, sup, inbox, calls, phase, bootJob,
                 lastEvent, budget, obs>>

\* updateJobProgress (an undefined lastRowHash leaves the column) with the
\* arguments maybePersistProgress evaluated when it made the call: bytesRead
\* is absoluteBytesRead as it was then, the counters do not move meanwhile
updateJobProgress(j, me) ==
  [jobs EXCEPT ![j] = [@ EXCEPT
     !.bytesRead = me.sentBytes,
     !.rowsProcessed = me.rowsProcessed,
     !.rowsInserted = me.rowsInserted,
     !.lastRowHash = IF me.lastRowHash = NoHash THEN @ ELSE me.lastRowHash]]

\* mutant: the write after the final flush is skipped like a rate-limited one
PersistProgressLimited(w) ==
  /\ w \in WorkerIds
  /\ workers[w].pc = "ckpt"
  /\ LET me == workers[w]
     IN /\ jobs' = IF me.final THEN jobs ELSE updateJobProgress(me.jobId, me)
        /\ recent' = IF me.final THEN recent ELSE Touch(me.jobId)
        /\ inbox' = post(w, [type |-> "progress", jobId |-> me.jobId,
                             rowsProcessed |-> me.rowsProcessed,
                             rowsInserted |-> me.rowsInserted,
                             bytesRead |-> me.absoluteBytesRead,
                             lastRowHash |-> me.lastRowHash])
        /\ workers' = SetW(w, [me EXCEPT !.pc = IF me.final THEN "complete" ELSE "loop"])
  /\ UNCHANGED <<file, progress, mapped, util, customers, sup, calls, phase, bootJob, lastEvent, budget, committed, obs>>

\* maybePersistProgress when it writes: updateJobProgress answers, then the
\* progress event is posted with absoluteBytesRead as it is by now
PersistProgress(w) ==
  /\ w \in WorkerIds
  /\ workers[w].pc = "ckpt"
  /\ LET me == workers[w]
     IN /\ jobs' = updateJobProgress(me.jobId, me)
        /\ recent' = Touch(me.jobId)
        /\ inbox' = post(w, [type |-> "progress", jobId |-> me.jobId,
                             rowsProcessed |-> me.rowsProcessed,
                             rowsInserted |-> me.rowsInserted,
                             bytesRead |-> me.absoluteBytesRead,
                             lastRowHash |-> me.lastRowHash])
        /\ workers' = SetW(w, [me EXCEPT !.pc = IF me.final THEN "complete" ELSE "loop"])
  /\ UNCHANGED <<file, progress, mapped, util, customers, sup, calls, phase, bootJob, lastEvent, budget, committed, obs>>

markJobCompleted(w) ==
  /\ w \in WorkerIds
  /\ workers[w].pc = "complete"
  /\ jobs' = [jobs EXCEPT ![workers[w].jobId].status = "COMPLETED"]
  /\ recent' = Touch(workers[w].jobId)
  /\ inbox' = postAll(w, <<[type |-> "done", jobId |-> workers[w].jobId],
                           ExitEvent(0)>>)
  /\ workers' = SetW(w, Retired(w, "exited"))
  /\ UNCHANGED <<file, progress, mapped, util, customers, sup, calls, phase, bootJob, lastEvent, budget, committed, obs>>

\* an awaited database call of the worker rejects; run() catches it
DbError(w) ==
  /\ w \in WorkerIds
  /\ workers[w].pc \in {"probe", "insert", "update", "ckpt", "complete"}
  /\ budget.faults > 0
  /\ budget' = [budget EXCEPT !.faults = @ - 1]
  /\ workers' = SetW(w, [workers[w] EXCEPT !.pc = "fail", !.err = "db error"])
  /\ UNCHANGED <<file, progress, mapped, util, jobs, recent, customers, sup, inbox, calls, phase,
                 bootJob, lastEvent, committed, obs>>

markJobFailed(w) ==
  /\ w \in WorkerIds
  /\ workers[w].pc = "fail"
  /\ jobs' = [jobs EXCEPT ![workers[w].jobId] =
                [@ EXCEPT !.status = "FAILED", !.error = workers[w].err]]
  /\ recent' = Touch(workers[w].jobId)
  /\ inbox' = postAll(w, <<[type |-> "error", jobId |-> workers[w].jobId,
                             error |-> workers[w].err],
                           ExitEvent(0)>>)
  /\ workers' = SetW(w, Retired(w, "exited"))
  /\ UNCHANGED <<file, progress, mapped, util, customers, sup, calls, phase, bootJob, lastEvent, budget, committed, obs>>

\* mutant: the rejection of the FAILED write escapes and nothing is posted
markJobFailedSilent(w) ==
  /\ w \in WorkerIds
  /\ workers[w].pc = "fail"
  /\ workers[w].err = "db error"
  /\ inbox' = postAll(w, <<ExitEvent(0)>>)
  /\ workers' = SetW(w, Retired(w, "exited"))
  /\ UNCHANGED <<file, progress, mapped, util, jobs, recent, customers, sup, calls, phase, bootJob,
                 lastEvent, budget, committed, obs>>

\* markJobFailed when its own update rejects too (the database that failed
\* the run still fails): the rejection is swallowed and the error event is
\* posted all the same
markJobFailedLost(w) ==
  /\ w \in WorkerIds
  /\ workers[w].pc = "fail"
  /\ workers[w].err = "db error"
  /\ inbox' = postAll(w, <<[type |-> "error", jobId |-> workers[w].jobId,
                             error |-> workers[w].err],
                           ExitEvent(0)>>)
  /\ workers' = SetW(w, Retired(w, "exited"))
  /\ UNCHANGED <<file, progress, mapped, util, jobs, recent, customers, sup, calls, phase, bootJob,
                 lastEvent, budget, committed, obs>>

\* the parser rejects a record: the for-await loop throws into run()'s catch
ParserError(w) ==
  /\ w \in WorkerIds
  /\ workers[w].pc = "loop"
  /\ ~workers[w].final
  /\ budget.faults > 0
  /\ budget' = [budget EXCEPT !.faults = @ - 1]
  /\ workers' = SetW(w, [workers[w] EXCEPT !.pc = "fail", !.err = "parse error"])
  /\ UNCHANGED <<file, progress, mapped, util, jobs, recent, customers, sup, inbox, calls, phase,
                 bootJob, lastEvent, committed, obs>>

\* fileStream.on("error", err => { throw err }): the throw happens in an
\* event callback, outside run()'s try, so it is an uncaught exception of the
\* thread: the thread dies where it stands, the parent gets 'error', then
\* 'exit' with code 1
ReadError(w) ==
  /\ w \in WorkerIds
  /\ workers[w].pc \in {"loop", "probe", "insert", "update", "ckpt"}
  /\ workers[w].absoluteBytesRead < FileSize(file)
  /\ budget.faults > 0
  /\ budget' = [budget EXCEPT !.faults = @ - 1]
  /\ workers' = SetW(w, Retired(w, "crashed"))
  /\ inbox' = postAll(w, <<[type |-> "uncaught", error |-> "read error"],
                           ExitEvent(1)>>)
  /\ UNCHANGED <<file, progress, mapped, util, jobs, recent, customers, sup, calls, phase, bootJob,
                 lastEvent, committed, obs>>

\* ------------------------------------------------------------ supervisor --
\* WorkerManager.startCsvImport when no worker is held: new Worker(...)
Spawned(payload) ==
  /\ workers' = Append(workers, RunInit(payload))
  /\ inbox' = Append(inbox, <<>>)
  /\ sup' = [worker |-> Len(workers) + 1, currentJobId |-> payload.jobId]

cleanupWorker == [worker |-> NoWorker, currentJobId |-> NoJob]

FreshPayload(j, batchSize) ==
  [jobId |-> j, batchSize |-> batchSize,
   resume |-> [startBytes |-> Undefined, lastRowHash |-> NoHash,
               rowsProcessed |-> Undefined, rowsInserted |-> Undefined,
               overlapBytes |-> MiB]]

ResumePayload(row, batchSize) ==
  [jobId |-> row.id, batchSize |-> batchSize,
   resume |-> [startBytes |-> row.bytesRead, lastRowHash |-> row.lastRowHash,
               rowsProcessed |-> row.rowsProcessed,
               rowsInserted |-> row.rowsInserted,
               overlapBytes |-> MiB]]

NoResp == [kind |-> "none", jobId |-> NoJob]

\* the paths a request or CSV_PATH can name: nothing, blanks, a path that
\* does not exist, a directory, the CSV file
CsvFile == "customers.csv"
Paths == {"", "  ", "missing.csv", "data", CsvFile}
FilePathInputs == {{}} \cup {{q} : q \in Paths}
DefaultCsvPaths == {"", CsvFile}

\* String.prototype.trim on these paths
trim(q) == IF q = "  " THEN "" ELSE q

existsSync(q) == q \in {"data", CsvFile}
isFile(q) == q = CsvFile

\* what assertCsvPath throws
assertCsvPath(q) == IF q = "" \/ trim(q) = "" THEN "Error" ELSE "none"

\* resolveFilePath: the trimmed input, else DEFAULT_CSV_PATH, trimmed
resolveFilePath(input, default) ==
  LET given == IF input = {} THEN "" ELSE trim(CHOOSE q \in input : TRUE)
  IN trim(IF given # "" THEN given ELSE default)

\* what ensureFileExists throws
ensureFileExists(filePath) ==
  IF ~existsSync(filePath) THEN "BadRequestException"
  ELSE IF ~isFile(filePath) THEN "BadRequestException"
  ELSE "none"

\* what the first two lines of startImport throw
PathCheck(input, default) ==
  LET filePath == resolveFilePath(input, default)
  IN IF assertCsvPath(filePath) # "none" THEN assertCsvPath(filePath)
     ELSE ensureFileExists(filePath)

\* HttpExceptionFilter.getStatus for what startImport threw
getStatus(thrown) ==
  IF thrown = "BadRequestException" THEN 400
  ELSE IF thrown = "ConflictException" THEN 409
  ELSE 500

\* startImport with a path that fails the file checks: the exception leaves
\* the call before its first query; CSV_PATH is what the deployment sets
StartImportReject ==
  /\ phase = "up"
  /\ budget.calls > 0
  /\ budget' = [budget EXCEPT !.calls = @ - 1]
  /\ \E input \in FilePathInputs, default \in DefaultCsvPaths, batchSize \in budget.sizes :
       /\ PathCheck(input, default) # "none"
       /\ calls' = Append(calls,
            [pc |-> "done", batchSize |-> batchSize, runningJob |-> NoJobRow,
             job |-> NoJob,
             resp |-> [kind |-> "rejected", jobId |-> NoJob,
                       filePath |-> resolveFilePath(input, default),
                       status |-> getStatus(PathCheck(input, default))]])
  /\ UNCHANGED <<file, progress, mapped, util, jobs, recent, customers, sup, workers, inbox, phase,
                 bootJob, lastEvent, committed, obs>>

\* startImport up to the result of findFirst: the file checks pass, the query
\* reads the table
StartImportFind ==
  /\ phase = "up"
  /\ budget.calls > 0
  /\ budget' = [budget EXCEPT !.calls = @ - 1]
  /\ \E batchSize \in budget.sizes :
       calls' = Append(calls,
         [pc |-> "found", batchSize |-> batchSize,
          runningJob |-> IF FindLatestRunning = NoJob THEN NoJobRow
                         ELSE RowCopy(FindLatestRunning),
          job |-> NoJob, resp |-> NoResp])
  /\ UNCHANGED <<file, progress, mapped, util, jobs, recent, customers, sup, workers, inbox, phase,
                 bootJob, lastEvent, committed, obs>>

\* mutant: the isRunning() test is missing, the call goes on to
\* startCsvImport, whose own guard throws a plain Error
StartImportConflictUnchecked(c) ==
  /\ c \in CallIds
  /\ calls[c].pc = "found"
  /\ calls[c].runningJob # NoJobRow
  /\ isRunning
  /\ calls' = [calls EXCEPT ![c] = [@ EXCEPT !.pc = "done",
                 !.resp = [kind |-> "error", jobId |-> NoJob]]]
  /\ UNCHANGED <<file, progress, mapped, util, jobs, recent, customers, sup, workers, inbox, phase,
                 bootJob, lastEvent, budget, committed, obs>>

\* runningJob && isRunning(): ConflictException
StartImportConflict(c) ==
  /\ c \in CallIds
  /\ calls[c].pc = "found"
  /\ calls[c].runningJob # NoJobRow
  /\ isRunning
  /\ calls' = [calls EXCEPT ![c] = [@ EXCEPT !.pc = "done",
                 !.resp = [kind |-> "conflict", jobId |-> calls[c].runningJob.id]]]
  /\ UNCHANGED <<file, progress, mapped, util, jobs, recent, customers, sup, workers, inbox, phase,
                 bootJob, lastEvent, budget, committed, obs>>

\* runningJob && !isRunning(): resume the row that was read
StartImportResume(c) ==
  /\ c \in CallIds
  /\ calls[c].pc = "found"
  /\ calls[c].runningJob # NoJobRow
  /\ ~isRunning
  /\ Spawned(ResumePayload(calls[c].runningJob, calls[c].batchSize))
  /\ calls' = [calls EXCEPT ![c] = [@ EXCEPT !.pc = "done",
                 !.resp = [kind |-> "ok", jobId |-> calls[c].runningJob.id]]]
  /\ UNCHANGED <<file, progress, mapped, util, jobs, recent, customers, phase, bootJob, lastEvent, budget, committed, obs>>

NewJob == [status |-> "RUNNING", bytesRead |-> 0, rowsProcessed |-> 0,
           rowsInserted |-> 0, lastRowHash |-> NoHash, error |-> ""]

\* no running job was read: importJob.create
StartImportCreate(c) ==
  /\ c \in CallIds
  /\ calls[c].pc = "found"
  /\ calls[c].runningJob = NoJobRow
  /\ jobs' = Append(jobs, NewJob)
  /\ recent' = <<Len(jobs) + 1>> \o recent
  /\ calls' = [calls EXCEPT ![c] = [@ EXCEPT !.pc = "created", !.job = Len(jobs) + 1]]
  /\ UNCHANGED <<file, progress, mapped, util, customers, sup, workers, inbox, phase, bootJob,
                 lastEvent, budget, committed, obs>>

\* after create: startCsvImport, which throws when a worker is held
StartImportSpawn(c) ==
  /\ c \in CallIds
  /\ calls[c].pc = "created"
  /\ IF isRunning
     THEN /\ calls' = [calls EXCEPT ![c] = [@ EXCEPT !.pc = "done",
                         !.resp = [kind |-> "error", jobId |-> NoJob]]]
          /\ UNCHANGED <<sup, workers, inbox>>
     ELSE /\ Spawned(FreshPayload(calls[c].job, calls[c].batchSize))
          /\ calls' = [calls EXCEPT ![c] = [@ EXCEPT !.pc = "done",
                         !.resp = [kind |-> "ok", jobId |-> calls[c].job]]]
  /\ UNCHANGED <<file, progress, mapped, util, jobs, recent, customers, phase, bootJob, lastEvent, budget, committed, obs>>

\* an observer of events$ between its subscription and its disconnect
Subscribed(s) == subs[s].pc \in {"query", "ready", "live"}

\* mutant: only observers that already have their snapshot get the frame
EmitLiveOnly(ev, w) ==
  IF phase = "down" THEN UNCHANGED <<lastEvent, published, subs>>
  ELSE /\ lastEvent' = ev
       /\ published' = Append(published, [ev |-> ev, run |-> w])
       /\ subs' = [s \in DOMAIN subs |->
                     IF subs[s].pc = "live" THEN [subs[s] EXCEPT !.frames = Append(@, ev)]
                     ELSE subs[s]]

\* events$.next(ev), called for worker run w: every observer subscribed now
\* gets the frame; a completed Subject ignores it
Emit(ev, w) ==
  IF phase = "down" THEN UNCHANGED <<lastEvent, published, subs>>
  ELSE /\ lastEvent' = ev
       /\ published' = Append(published, [ev |-> ev, run |-> w])
       /\ subs' = [s \in DOMAIN subs |->
                     IF Subscribed(s) THEN [subs[s] EXCEPT !.frames = Append(@, ev)]
                     ELSE subs[s]]

\* worker.on("message"): forward, and clean up on done / error
handleWorkerMessage(w) ==
  /\ w \in WorkerIds
  /\ sup.worker = w
  /\ inbox[w] # <<>>
  /\ Head(inbox[w]).type \in {"progress", "done", "error"}
  /\ Emit(Head(inbox[w]), w)
  /\ inbox' = [inbox EXCEPT ![w] = Tail(@)]
  /\ sup' = IF Head(inbox[w]).type \in {"done", "error"} THEN cleanupWorker ELSE sup
  /\ UNCHANGED <<file, progress, mapped, util, jobs, recent, customers, workers, calls, phase,
                 bootJob, budget, committed, handlers>>

\* onModuleInit up to the result of findFirst({where: {status: RUNNING}})
BootFind ==
  /\ phase = "boot"
  /\ phase' = "booting"
  /\ IF RunningIds = {} THEN bootJob' = NoJobRow
     ELSE \E j \in RunningIds : bootJob' = RowCopy(j)
  /\ UNCHANGED <<file, progress, mapped, util, jobs, recent, customers, sup, workers, inbox, calls,
                 lastEvent, budget, committed, obs>>

\* mutant: the boot-time spawn forgets the persisted cursor
BootSpawnNoCursor ==
  /\ phase = "booting"
  /\ phase' = "up"
  /\ bootJob' = NoJobRow
  /\ IF bootJob = NoJobRow THEN UNCHANGED <<sup, workers, inbox>>
     ELSE Spawned(FreshPayload(bootJob.id, Undefined))
  /\ UNCHANGED <<file, progress, mapped, util, jobs, recent, customers, calls, lastEvent, budget, committed, obs>>

\* onModuleInit after the query: resume the row that was read, if any
BootSpawn ==
  /\ phase = "booting"
  /\ phase' = "up"
  /\ bootJob' = NoJobRow
  /\ IF bootJob = NoJobRow THEN UNCHANGED <<sup, workers, inbox>>
     ELSE Spawned(ResumePayload(bootJob, Undefined))
  /\ UNCHANGED <<file, progress, mapped, util, jobs, recent, customers, calls, lastEvent, budget, committed, obs>>

\* terminate()'s promise resolves when 'exit' is emitted for worker w
ExitSeen(w) ==
  [h \in DOMAIN handlers |->
     IF handlers[h].kind = "stop" /\ handlers[h].w = w /\ handlers[h].pc = "terminating"
     THEN [handlers[h] EXCEPT !.pc = "find"]
     ELSE handlers[h]]

\* a callback of the supervisor suspended in failJobIfStillRunning(jobId, error)
Callback(kind, w, error) ==
  [kind |-> kind, w |-> w, payloadJobId |-> workers[w].jobId,
   jobId |-> sup.currentJobId, error |-> error,
   pc |-> IF sup.currentJobId = NoJob THEN "after" ELSE "find"]

\* worker.on("error") up to its await: the job id is read from the
\* supervisor now, the database is read later
OnWorkerError(w) ==
  /\ w \in WorkerIds
  /\ sup.worker = w
  /\ inbox[w] # <<>>
  /\ Head(inbox[w]).type = "uncaught"
  /\ inbox' = [inbox EXCEPT ![w] = Tail(@)]
  /\ handlers' = Append(handlers, Callback("error", w, Head(inbox[w]).error))
  /\ UNCHANGED <<file, progress, mapped, util, jobs, recent, customers, sup, workers, calls, phase,
                 bootJob, lastEvent, budget, committed, published, subs>>

WorkerExited == "Worker exited with code 1"

\* worker.on("exit") up to its await; a clean exit only cleans up
OnWorkerExit(w) ==
  /\ w \in WorkerIds
  /\ sup.worker = w
  /\ inbox[w] # <<>>
  /\ Head(inbox[w]).type = "exit"
  /\ inbox' = [inbox EXCEPT ![w] = Tail(@)]
  /\ IF Head(inbox[w]).code # 0
     THEN /\ handlers' = Append(ExitSeen(w), Callback("exit", w, WorkerExited))
          /\ sup' = sup
     ELSE /\ handlers' = ExitSeen(w)
          /\ sup' = cleanupWorker
  /\ UNCHANGED <<file, progress, mapped, util, jobs, recent, customers, workers, calls, phase,
                 bootJob, lastEvent, budget, committed, published, subs>>

\* failJobIfStillRunning: findUnique
HandlerFind(h) ==
  /\ h \in DOMAIN handlers
  /\ handlers[h].pc = "find"
  /\ handlers' = [handlers EXCEPT ![h].pc =
        IF jobs[handlers[h].jobId].status = "RUNNING" THEN "update" ELSE "after"]
  /\ UNCHANGED <<file, progress, mapped, util, jobs, recent, customers, sup, workers, inbox, calls,
                 phase, bootJob, lastEvent, budget, committed, published, subs>>

\* failJobIfStillRunning: update({status: FAILED, error})
HandlerUpdate(h) ==
  /\ h \in DOMAIN handlers
  /\ handlers[h].pc = "update"
  /\ jobs' = [jobs EXCEPT ![handlers[h].jobId] =
                [@ EXCEPT !.status = "FAILED", !.error = handlers[h].error]]
  /\ recent' = Touch(handlers[h].jobId)
  /\ handlers' = [handlers EXCEPT ![h].pc = "after"]
  /\ UNCHANGED <<file, progress, mapped, util, customers, sup, workers, inbox, calls, phase, bootJob,
                 lastEvent, budget, committed, published, subs>>

Without(h) == [i \in 1..(Len(handlers) - 1) |->
                 IF i < h THEN handlers[i] ELSE handlers[i + 1]]

\* mutant: the callback ends without cleanupWorker()
HandlerAfterHolds(h) ==
  /\ h \in DOMAIN handlers
  /\ handlers[h].pc = "after"
  /\ LET me == handlers[h]
     IN /\ IF me.kind = "error"
           THEN Emit([type |-> "error",
                      jobId |-> IF sup.currentJobId # NoJob THEN sup.currentJobId
                                ELSE me.payloadJobId,
                      error |-> me.error], me.w)
           ELSE IF me.kind = "exit" /\ sup.currentJobId # NoJob
           THEN Emit([type |-> "error", jobId |-> sup.currentJobId,
                      error |-> me.error], me.w)
           ELSE UNCHANGED <<lastEvent, published, subs>>
        /\ phase' = IF me.kind = "stop" THEN "down" ELSE phase
  /\ sup' = sup
  /\ handlers' = Without(h)
  /\ UNCHANGED <<file, progress, mapped, util, jobs, recent, customers, workers, inbox, calls,
                 bootJob, budget, committed>>

\* the rest of the callback after failJobIfStillRunning returned: the event
\* (the job id is read from the supervisor again), then cleanupWorker();
\* after stopWorker, onApplicationShutdown completes the stream
HandlerAfter(h) ==
  /\ h \in DOMAIN handlers
  /\ handlers[h].pc = "after"
  /\ LET me == handlers[h]
     IN /\ IF me.kind = "error"
           THEN Emit([type |-> "error",
                      jobId |-> IF sup.currentJobId # NoJob THEN sup.currentJobId
                                ELSE me.payloadJobId,
                      error |-> me.error], me.w)
           ELSE IF me.kind = "exit" /\ sup.currentJobId # NoJob
           THEN Emit([type |-> "error", jobId |-> sup.currentJobId,
                      error |-> me.error], me.w)
           ELSE UNCHANGED <<lastEvent, published, subs>>
        /\ phase' = IF me.kind = "stop" THEN "down" ELSE phase
  /\ sup' = cleanupWorker
  /\ handlers' = Without(h)
  /\ UNCHANGED <<file, progress, mapped, util, jobs, recent, customers, workers, inbox, calls,
                 bootJob, budget, committed>>

ShutdownReason == "Application shutdown"

\* onApplicationShutdown: stopWorker(reason) up to worker.terminate(), which
\* stops the thread where it stands (exit code 1); with no worker held the
\* stream is completed at once
Shutdown ==
  /\ phase = "up"
  /\ budget.stops > 0
  /\ budget' = [budget EXCEPT !.stops = @ - 1]
  /\ IF ~isRunning
     THEN /\ phase' = "down"
          /\ UNCHANGED <<workers, inbox, handlers>>
     ELSE LET w == sup.worker
          IN /\ phase' = "stopping"
             /\ workers' = IF Live(w) THEN SetW(w, Retired(w, "terminated")) ELSE workers
             /\ inbox' = IF Live(w) THEN post(w, ExitEvent(1)) ELSE inbox
             /\ handlers' = Append(handlers,
                   [Callback("stop", w, ShutdownReason) EXCEPT !.pc = "terminating"])
  /\ UNCHANGED <<file, progress, mapped, util, jobs, recent, customers, sup, calls, bootJob, lastEvent,
                 committed, published, subs>>

\* ------------------------------------------------------- progress stream --
NoSnapshot == [type |-> "none"]

\* getLatestJob: the latest RUNNING job, else the latest job, else none
getLatestJob ==
  IF FindLatestRunning # NoJob THEN FindLatestRunning
  ELSE IF recent # <<>> THEN recent[1] ELSE NoJob

\* what a subscriber's snapshot frame tells of the job
Snapshot ==
  LET j == getLatestJob
  IN IF j = NoJob THEN [type |-> "snapshot", jobId |-> NoJob, status |-> "idle"]
     ELSE [type |-> "snapshot", jobId |-> j, status |-> jobs[j].status]

\* JavaScript numbers that are not integers, kept exact: n / d with d > 0
Rat(n, d) == [n |-> n, d |-> d]
RatLeq(a, b) == a.n * b.d <= b.n * a.d
RatMin(a, b) == IF RatLeq(a, b) THEN a ELSE b
RatMax(a, b) == IF RatLeq(a, b) THEN b ELSE a

\* mutant: the upper limit is not applied
clampBelow(n, min, max) == RatMax(min, n)

\* clamp(n, min, max) == Math.max(min, Math.min(max, n))
clamp(n, min, max) == RatMax(min, RatMin(max, n))

\* Math.ceil(a / b) for a >= 0 and b > 0
Ceil(a, b) == (a + b - 1) \div b

\* null, where a number of seconds is expected
Null == 0 - 1

\* a query parameter is absent ({}) or holds one number
Param(q, default) == IF q = {} THEN default ELSE CHOOSE v \in q : TRUE

\* getProgressSnapshot after getLatestJob has answered job, for the query
\* parameters totalRows and recentLimit, at a time when Date.now() - startedAt
\* is clockSec seconds; recentSince Customer rows have updatedAt >= startedAt.
\* The response also records the totalRows and recentLimit it was made for.
getProgressSnapshot(job, totalRowsQ, recentLimitQ, clockSec, recentSince) ==
  LET totalRows == Param(totalRowsQ, TotalRowsDefault)
      recentLimit == Param(recentLimitQ, RecentRowsDefault)
  IN IF job = NoJobRow
     THEN [type |-> "snapshot", jobId |-> NoJob, status |-> "idle",
           rowsProcessed |-> 0, rowsInserted |-> 0, bytesRead |-> 0,
           percent |-> Rat(0, 1), rateRowsPerSec |-> Rat(0, 1), elapsedSec |-> 0,
           etaSec |-> Null, disableSync |-> FALSE, recentCustomers |-> 0,
           totalRows |-> totalRows, recentLimit |-> recentLimit]
     ELSE LET elapsedSec == Max(0, clockSec)
              processedNum == job.rowsProcessed
              percent == IF totalRows > 0
                         THEN clamp(Rat(processedNum * 100, totalRows), Rat(0, 1), Rat(100, 1))
                         ELSE Rat(0, 1)
              rateRowsPerSec == IF elapsedSec > 0 THEN Rat(processedNum, elapsedSec)
                                ELSE Rat(0, 1)
              remaining == Max(0, totalRows - processedNum)
              etaSec == IF rateRowsPerSec.n > 0
                        THEN Ceil(remaining * rateRowsPerSec.d, rateRowsPerSec.n)
                        ELSE Null
              take == clamp(Rat(recentLimit, 1), Rat(1, 1), Rat(RecentCap, 1)).n
              recentCustomers == IF job.status \in {"RUNNING", "COMPLETED"}
                                 THEN Min(recentSince, take) ELSE 0
          IN [type |-> "snapshot", jobId |-> job.id, status |-> job.status,
              rowsProcessed |-> job.rowsProcessed, rowsInserted |-> job.rowsInserted,
              bytesRead |-> job.bytesRead,
              percent |-> percent, rateRowsPerSec |-> rateRowsPerSec,
              elapsedSec |-> elapsedSec, etaSec |-> etaSec,
              disableSync |-> (job.status = "RUNNING"),
              recentCustomers |-> recentCustomers,
              totalRows |-> totalRows, recentLimit |-> recentLimit]

\* the values GET /customers/progress is called with, and the clock
TotalRowsQueries == {{}, {0 - 2}, {2}}
RecentLimitQueries == {{}, {5}}
ClockSecs == {0 - 1, 2}

\* getLatestJob has answered job: the snapshot is computed up to the await
\* of getRecentCustomers, which only a RUNNING or COMPLETED job reaches
Selected(job) ==
  \E totalRowsQ \in TotalRowsQueries, recentLimitQ \in RecentLimitQueries,
     clockSec \in ClockSecs :
    progress' =
      IF job # NoJobRow /\ job.status \in {"RUNNING", "COMPLETED"}
      THEN [type |-> "recent", job |-> job, totalRowsQ |-> totalRowsQ,
            recentLimitQ |-> recentLimitQ, clockSec |-> clockSec]
      ELSE getProgressSnapshot(job, totalRowsQ, recentLimitQ, clockSec, 0)

\* GET /customers/progress up to the answer of getLatestJob's first query,
\* the one for a RUNNING job; one request is in flight at a time
GetProgressRunning ==
  /\ phase = "up"
  /\ progress.type \in {"none", "snapshot"}
  /\ IF FindLatestRunning # NoJob
     THEN Selected(RowCopy(FindLatestRunning))
     ELSE progress' = [type |-> "latest"]
  /\ file' = file
  /\ mapped' = mapped
  /\ UNCHANGED util
  /\ UNCHANGED <<jobs, recent, customers, sup, workers, inbox, calls, phase,
                 bootJob, lastEvent, budget, committed, obs>>

\* getLatestJob's second query answers: the most recently updated job
GetProgressLatest ==
  /\ phase = "up"
  /\ progress.type = "latest"
  /\ Selected(IF recent # <<>> THEN RowCopy(recent[1]) ELSE NoJobRow)
  /\ file' = file
  /\ mapped' = mapped
  /\ UNCHANGED util
  /\ UNCHANGED <<jobs, recent, customers, sup, workers, inbox, calls, phase,
                 bootJob, lastEvent, budget, committed, obs>>

\* getRecentCustomers answers and the response is sent; every Customer row
\* of the model was written after the first job started
GetProgressRecent ==
  /\ phase = "up"
  /\ progress.type = "recent"
  /\ progress' = getProgressSnapshot(progress.job, progress.totalRowsQ,
                                     progress.recentLimitQ, progress.clockSec,
                                     Cardinality(DOMAIN customers))
  /\ file' = file
  /\ mapped' = mapped
  /\ UNCHANGED util
  /\ UNCHANGED <<jobs, recent, customers, sup, workers, inbox, calls, phase,
                 bootJob, lastEvent, budget, committed, obs>>

\* progressStream: the snapshot query is started and the merged stream is
\* subscribed, live$ included
Subscribe ==
  /\ phase = "up"
  /\ Len(subs) < budget.subs
  /\ subs' = Append(subs, [pc |-> "query", snap |-> NoSnapshot, frames |-> <<>>,
                           since |-> Len(published)])
  /\ UNCHANGED <<file, progress, mapped, util, jobs, recent, customers, sup, workers, inbox, calls,
                 phase, bootJob, lastEvent, budget, committed, handlers, published>>

\* the snapshot query reads the tables
SnapshotRead(s) ==
  /\ s \in DOMAIN subs
  /\ subs[s].pc = "query"
  /\ subs' = [subs EXCEPT ![s] = [@ EXCEPT !.pc = "ready", !.snap = Snapshot]]
  /\ UNCHANGED <<file, progress, mapped, util, jobs, recent, customers, sup, workers, inbox, calls,
                 phase, bootJob, lastEvent, budget, committed, handlers, published>>

\* initial$ emits: the promise of the snapshot resolved
SnapshotDeliver(s) ==
  /\ s \in DOMAIN subs
  /\ subs[s].pc = "ready"
  /\ subs' = [subs EXCEPT ![s] = [@ EXCEPT !.pc = "live",
                                            !.frames = Append(@, subs[s].snap)]]
  /\ UNCHANGED <<file, progress, mapped, util, jobs, recent, customers, sup, workers, inbox, calls,
                 phase, bootJob, lastEvent, budget, committed, handlers, published>>

\* the client disconnects: the subscription is cancelled
Unsubscribe(s) ==
  /\ s \in DOMAIN subs
  /\ Subscribed(s)
  /\ subs' = [subs EXCEPT ![s] = [@ EXCEPT !.pc = "closed"]]
  /\ UNCHANGED <<file, progress, mapped, util, jobs, recent, customers, sup, workers, inbox, calls,
                 phase, bootJob, lastEvent, budget, committed, handlers, published>>

\* the process is killed and started again: threads, handles, callbacks,
\* requests and subscriptions are gone, the two tables stay; a thread the
\* kill cut short is "killed", one that had ended before is "past"
Crash ==
  /\ phase # "boot"
  /\ budget.faults > 0
  /\ budget' = [budget EXCEPT !.faults = @ - 1]
  /\ workers' = [w \in WorkerIds |->
                   IF Live(w) \/ sup.worker = w THEN Retired(w, "killed")
                   ELSE Retired(w, "past")]
  /\ inbox' = [w \in WorkerIds |-> <<>>]
  /\ sup' = cleanupWorker
  /\ calls' = [c \in CallIds |->
                 IF calls[c].pc = "done" THEN calls[c]
                 ELSE [calls[c] EXCEPT !.pc = "aborted"]]
  /\ phase' = "boot"
  /\ bootJob' = NoJobRow
  /\ lastEvent' = NoEvent
  /\ handlers' = <<>>
  /\ published' = <<>>
  /\ subs' = <<>>
  /\ progress' = IF progress.type = "snapshot" THEN progress ELSE NoSnapshot
  /\ UNCHANGED <<file, mapped, util, jobs, recent, customers, committed>>

\* --------------------------------------------------------- specifications --
InitWith(files, sizes, nCalls, nFaults, nStops, nSubs) ==
  /\ file \in files
  /\ jobs = <<>>
  /\ recent = <<>>
  /\ customers = <<>>
  /\ sup = cleanupWorker
  /\ workers = <<>>
  /\ inbox = <<>>
  /\ calls = <<>>
  /\ phase = "boot"
  /\ bootJob = NoJobRow
  /\ lastEvent = NoEvent
  /\ budget = [calls |-> nCalls, faults |-> nFaults, sizes |-> sizes,
               stops |-> nStops, subs |-> nSubs]
  /\ committed = {}
  /\ handlers = <<>>
  /\ published = <<>>
  /\ subs = <<>>
  /\ progress = NoSnapshot
  /\ mapped = [type |-> "none"]
  /\ retry = NotCalled
  /\ buffer = NotBuilt

Init == InitWith(SupFiles, {MinBatchSize}, MaxCalls, MaxFaults, 0, 0)
InitRes == InitWith(ResFiles, {MinBatchSize, DefaultBatchSize}, 1, ResFaults, 0, 0)

Next ==
  \/ BootFind
  \/ BootSpawn
  \/ StartImportFind
  \/ \E c \in CallIds : StartImportConflict(c)
  \/ \E c \in CallIds : StartImportResume(c)
  \/ \E c \in CallIds : StartImportCreate(c)
  \/ \E c \in CallIds : StartImportSpawn(c)
  \/ \E w \in WorkerIds : handleWorkerMessage(w)
  \/ \E w \in WorkerIds : ReadChunk(w)
  \/ \E w \in WorkerIds : NextRecord(w)
  \/ \E w \in WorkerIds : EndOfStream(w)
  \/ \E w \in WorkerIds : FlushProbe(w)
  \/ \E w \in WorkerIds : FlushInsert(w)
  \/ \E w \in WorkerIds : FlushUpdate(w)
  \/ \E w \in WorkerIds : PersistProgress(w)
  \/ \E w \in WorkerIds : markJobCompleted(w)
  \/ \E w \in WorkerIds : DbError(w)
  \/ \E w \in WorkerIds : markJobFailed(w)
  \/ Crash

\* one import request, then kills and restarts: with a single startImport
\* call no call ever reads a RUNNING row, so its two RUNNING branches are out
NextRes ==
  \/ BootFind
  \/ BootSpawn
  \/ StartImportFind
  \/ \E c \in CallIds : StartImportCreate(c)
  \/ \E c \in CallIds : StartImportSpawn(c)
  \/ \E w \in WorkerIds : handleWorkerMessage(w)
  \/ \E w \in WorkerIds : ReadChunk(w)
  \/ \E w \in WorkerIds : NextRecord(w)
  \/ \E w \in WorkerIds : EndOfStream(w)
  \/ \E w \in WorkerIds : FlushProbe(w)
  \/ \E w \in WorkerIds : FlushInsert(w)
  \/ \E w \in WorkerIds : FlushUpdate(w)
  \/ \E w \in WorkerIds : PersistProgress(w)
  \/ \E w \in WorkerIds : markJobCompleted(w)
  \/ \E w \in WorkerIds : DbError(w)
  \/ \E w \in WorkerIds : markJobFailed(w)
  \/ Crash

\* the worker's ways to end and the supervisor's callbacks on them, with
\* startImport calls and one application shutdown
InitEvt == InitWith(SupFiles, {MinBatchSize}, EvtCalls, EvtFaults, 1, 0)

NextEvt ==
  \/ Next
  \/ \E w \in WorkerIds : markJobFailedLost(w)
  \/ \E w \in WorkerIds : ParserError(w)
  \/ \E w \in WorkerIds : ReadError(w)
  \/ \E w \in WorkerIds : OnWorkerError(w)
  \/ \E w \in WorkerIds : OnWorkerExit(w)
  \/ \E h \in DOMAIN handlers : HandlerFind(h)
  \/ \E h \in DOMAIN handlers : HandlerUpdate(h)
  \/ \E h \in DOMAIN handlers : HandlerAfter(h)
  \/ Shutdown

\* LiveCalls startImport calls, at most LiveFaults faults and one shutdown, with
\* every thread and every callback that can take a step taking it in the end
InitLive == InitWith({FileShort}, {MinBatchSize}, LiveCalls, LiveFaults, 1, 0)

\* a step of the program itself, as opposed to a request, a fault or a stop
Scheduled ==
  \/ BootFind
  \/ BootSpawn
  \/ \E c \in CallIds : StartImportConflict(c) \/ StartImportResume(c)
                        \/ StartImportCreate(c) \/ StartImportSpawn(c)
  \/ \E w \in WorkerIds : handleWorkerMessage(w) \/ OnWorkerError(w) \/ OnWorkerExit(w)
  \/ \E h \in DOMAIN handlers : HandlerFind(h) \/ HandlerUpdate(h) \/ HandlerAfter(h)
  \/ \E w \in WorkerIds : ReadChunk(w) \/ NextRecord(w) \/ EndOfStream(w)
  \/ \E w \in WorkerIds : FlushProbe(w) \/ FlushInsert(w) \/ FlushUpdate(w)
  \/ \E w \in WorkerIds : PersistProgress(w) \/ markJobCompleted(w) \/ markJobFailed(w)

\* the event loops do not stop while something can run
Fairness == WF_vars(Scheduled)

\* one import and the observers of the progress stream
InitSub == InitWith(SupFiles, {MinBatchSize}, 1, SubFaults, 0, MaxSubs)

NextSub ==
  \/ NextRes
  \/ Subscribe
  \/ \E s \in DOMAIN subs : SnapshotRead(s)
  \/ \E s \in DOMAIN subs : SnapshotDeliver(s)
  \/ \E s \in DOMAIN subs : Unsubscribe(s)

\* one import whose worker fails inside run(): parser and database errors,
\* the FAILED write lost or not
InitFail == InitWith(SupFiles, {MinBatchSize}, 1, FailFaults, 0, 0)

NextFail ==
  \/ NextRes
  \/ \E w \in WorkerIds : markJobFailedLost(w)
  \/ \E w \in WorkerIds : ParserError(w)

\* one fresh import of distinct new customers that nothing disturbs, for
\* each batch size a request or the configuration can hand to the worker
InitBatch == InitWith({FileTiny, FileDistinct},
                      {SmallBatchSize, MinBatchSize, DefaultBatchSize}, 1, 0, 0, 0)

NextBatch ==
  \/ BootFind
  \/ BootSpawn
  \/ StartImportFind
  \/ \E c \in CallIds : StartImportCreate(c)
  \/ \E c \in CallIds : StartImportSpawn(c)
  \/ \E w \in WorkerIds : handleWorkerMessage(w)
  \/ \E w \in WorkerIds : ReadChunk(w)
  \/ \E w \in WorkerIds : NextRecord(w)
  \/ \E w \in WorkerIds : EndOfStream(w)
  \/ \E w \in WorkerIds : FlushProbe(w)
  \/ \E w \in WorkerIds : FlushInsert(w)
  \/ \E w \in WorkerIds : PersistProgress(w)
  \/ \E w \in WorkerIds : markJobCompleted(w)

\* the mapper and the hash applied to two parsed records that hold the same
\* cells under header rows that differ in letter case and column order
MapPair ==
  /\ mapped.type = "none"
  /\ \E colsA \in HeaderRows, colsB \in HeaderRows, cells \in ResFiles :
       \E n \in DOMAIN cells :
         LET lineOf(cols) == [i \in DOMAIN cols |->
                                CellOf(Header, cells[n], CHOOSE h \in Range(Header) :
                                                          cols[i] \in Spellings(h))]
             recA == ParseRecord(colsA, lineOf(colsA))
             recB == ParseRecord(colsB, lineOf(colsB))
         IN mapped' = [type |-> "pair",
                       columns |-> <<colsA, colsB>>,
                       lines |-> <<lineOf(colsA), lineOf(colsB)>>,
                       hashes |-> <<HashOf(recA), HashOf(recB)>>]
  /\ UNCHANGED <<file, progress, util, jobs, recent, customers, sup, workers,
                 inbox, calls, phase, bootJob, lastEvent, budget, committed, obs>>

InitHash == InitWith(SupFiles, {MinBatchSize}, 0, 0, 0, 0)

NextHash == MapPair

\* PathCalls calls of startImport, with paths that pass the file checks and
\* paths that do not
InitPath == InitWith(SupFiles, {MinBatchSize}, PathCalls, 0, 0, 0)

NextPath ==
  \/ NextBatch
  \/ \E w \in WorkerIds : FlushUpdate(w)
  \/ StartImportReject

\* one import, failed by the database at most SnapFaults times, and the
\* progress endpoint asked at any moment
InitSnap == InitWith({FileAgain}, {MinBatchSize}, 1, SnapFaults, 0, 0)

\* SnapCalls imports one after the other or overlapping, and the progress
\* endpoint asked at any moment
InitPick == InitWith({FileTiny}, {MinBatchSize}, SnapCalls, SnapFaults, 0, 0)

NextSnap ==
  \/ NextBatch
  \/ \E w \in WorkerIds : FlushUpdate(w)
  \/ \E w \in WorkerIds : DbError(w)
  \/ \E w \in WorkerIds : markJobFailed(w)
  \/ GetProgressRunning
  \/ GetProgressLatest
  \/ GetProgressRecent

\* one import that runs to its end or fails on a database error, and the
\* observers that join and leave meanwhile
InitCast == InitWith({FileAgain}, {MinBatchSize}, 1, CastFaults, 0, CastSubs)

NextCast ==
  \/ BootFind
  \/ BootSpawn
  \/ StartImportFind
  \/ \E c \in CallIds : StartImportCreate(c)
  \/ \E c \in CallIds : StartImportSpawn(c)
  \/ \E w \in WorkerIds : handleWorkerMessage(w)
  \/ \E w \in WorkerIds : ReadChunk(w)
  \/ \E w \in WorkerIds : NextRecord(w)
  \/ \E w \in WorkerIds : EndOfStream(w)
  \/ \E w \in WorkerIds : FlushProbe(w)
  \/ \E w \in WorkerIds : FlushInsert(w)
  \/ \E w \in WorkerIds : FlushUpdate(w)
  \/ \E w \in WorkerIds : PersistProgress(w)
  \/ \E w \in WorkerIds : markJobCompleted(w)
  \/ \E w \in WorkerIds : DbError(w)
  \/ \E w \in WorkerIds : markJobFailed(w)
  \/ Subscribe
  \/ \E s \in DOMAIN subs : SnapshotRead(s)
  \/ \E s \in DOMAIN subs : SnapshotDeliver(s)
  \/ \E s \in DOMAIN subs : Unsubscribe(s)

\* one observer of the progress stream beside the supervisor's callbacks
InitObs == InitWith(SupFiles, {MinBatchSize}, ObsCalls, ObsFaults, 0, 1)

NextObs ==
  \/ Next
  \/ \E w \in WorkerIds : ParserError(w)
  \/ \E w \in WorkerIds : ReadError(w)
  \/ \E w \in WorkerIds : OnWorkerError(w)
  \/ \E w \in WorkerIds : OnWorkerExit(w)
  \/ \E h \in DOMAIN handlers : HandlerFind(h)
  \/ \E h \in DOMAIN handlers : HandlerUpdate(h)
  \/ \E h \in DOMAIN handlers : HandlerAfter(h)
  \/ Subscribe
  \/ \E s \in DOMAIN subs : SnapshotRead(s)
  \/ \E s \in DOMAIN subs : SnapshotDeliver(s)
  \/ \E s \in DOMAIN subs : Unsubscribe(s)

Spec == Init /\ [][Next]_vars
SpecRes == InitRes /\ [][NextRes]_vars
SpecEvt == InitEvt /\ [][NextEvt]_vars
SpecSub == InitSub /\ [][NextSub]_vars
SpecObs == InitObs /\ [][NextObs]_vars
SpecCast == InitCast /\ [][NextCast]_vars
SpecFail == InitFail /\ [][NextFail]_vars
SpecSnap == InitSnap /\ [][NextSnap]_vars
SpecPick == InitPick /\ [][NextSnap]_vars
SpecPath == InitPath /\ [][NextPath]_vars
SpecLive == InitLive /\ [][NextEvt]_vars /\ Fairness
SpecHash == InitHash /\ [][NextHash]_vars
SpecBatch == InitBatch /\ [][NextBatch]_vars

\* ----------------------------------------------- one uninterrupted import --
\* what flushBatch leaves in Customer when nothing interrupts it
FlushTable(table, items) ==
  LET rows == Rows(byCustomerId(items))
  IN UpdateAll(CreateMany(table, SelectSeq(rows, LAMBDA r : r.customerId \notin DOMAIN table)),
               SelectSeq(rows, LAMBDA r : r.customerId \in DOMAIN table))

RECURSIVE RunTable(_, _, _)
RunTable(table, items, b) ==
  IF items = <<>> THEN table
  ELSE IF Len(items) <= b THEN FlushTable(table, items)
  ELSE RunTable(FlushTable(table, SubSeq(items, 1, b)),
                SubSeq(items, b + 1, Len(items)), b)

RECURSIVE RunInserted(_, _)
RunInserted(items, b) ==
  IF items = <<>> THEN 0
  ELSE IF Len(items) <= b THEN Len(byCustomerId(items))
  ELSE Len(byCustomerId(SubSeq(items, 1, b)))
       + RunInserted(SubSeq(items, b + 1, Len(items)), b)

\* the batch size the (single) request of SpecRes asked for
RequestedBatch == Max(MinBatchSize, calls[1].batchSize)

\* ------------------------------------------------------------- the claims --

\* C1: under every interleaving of startImport calls, boot-time
\* reconciliation and worker terminal events, two ImportJob rows are never
\* RUNNING at the same time.
C1_SingleRunning == Cardinality(RunningIds) <= 1

\* C2: when a job is COMPLETED, however often the process was killed and
\* restarted, the Customer table equals the table one uninterrupted import
\* of the file produces.
C2_ResumeEquivalence ==
  \A j \in JobIds :
    jobs[j].status = "COMPLETED" =>
      customers = RunTable(<<>>, ValidItems(file), RequestedBatch)

\* C3: every persisted checkpoint {rowsProcessed = R, lastRowHash = H} has
\* the first R mapped-valid rows committed, and H is the sourceHash of the
\* R-th mapped-valid row (null when R = 0).
C3_CheckpointConsistent ==
  \A j \in JobIds :
    LET R == jobs[j].rowsProcessed
        H == jobs[j].lastRowHash
        valid == ValidItems(file)
    IN /\ R <= Len(valid)
       /\ IF R = 0 THEN H = NoHash ELSE H = valid[R].sourceHash
       /\ \A i \in 1..R : valid[i].sourceHash \in committed

\* C4: a job completes, after any kills and resumes, with rowsProcessed equal
\* to the number of mapped-valid rows of the file and rowsInserted equal to
\* what an uninterrupted run reports.
C4_NoDoubleCount ==
  \A j \in JobIds :
    jobs[j].status = "COMPLETED" =>
      /\ jobs[j].rowsProcessed = Len(ValidItems(file))
      /\ jobs[j].rowsInserted = RunInserted(ValidItems(file), RequestedBatch)

C6_ResumeFromPersisted ==
  [][\A c \in CallIds :
       (/\ calls[c].pc = "found"
        /\ calls[c].runningJob # NoJobRow
        /\ ~isRunning
        /\ calls'[c].pc = "done")
       => LET j == calls[c].runningJob.id
              w == Len(workers) + 1
          IN /\ Len(workers') = w
             /\ workers'[w].workerData.jobId = j
             /\ workers'[w].workerData.resume.startBytes = jobs[j].bytesRead
             /\ workers'[w].workerData.resume.rowsProcessed = jobs[j].rowsProcessed
             /\ workers'[w].workerData.resume.rowsInserted = jobs[j].rowsInserted
             /\ workers'[w].workerData.resume.lastRowHash = jobs[j].lastRowHash
             /\ jobs' = jobs]_vars

\* C7: when onModuleInit finishes, a RUNNING row means exactly one new worker,
\* resuming a RUNNING job from its persisted bytesRead, rowsProcessed,
\* rowsInserted and lastRowHash with an overlap of 1 MiB; no RUNNING row
\* means no worker.
C7_BootResume ==
  [][(phase = "booting" /\ phase' = "up")
       => IF RunningIds = {}
          THEN workers' = workers /\ sup' = sup
          ELSE LET w == Len(workers) + 1
               IN /\ Len(workers') = w
                  /\ \A v \in WorkerIds : workers'[v] = workers[v]
                  /\ sup'.worker = w
                  /\ workers'[w].workerData.jobId \in RunningIds
                  /\ workers'[w].workerData.resume =
                       LET row == jobs[workers'[w].workerData.jobId]
                       IN [startBytes |-> row.bytesRead,
                           lastRowHash |-> row.lastRowHash,
                           rowsProcessed |-> row.rowsProcessed,
                           rowsInserted |-> row.rowsInserted,
                           overlapBytes |-> MiB]]_vars

C7_Witness ==
  \E w \in WorkerIds :
    /\ workers[w].pc = "loop"
    /\ workers[w].workerData.resume.startBytes > MiB
    /\ workers[w].workerData.resume.rowsProcessed > 0
    /\ workers[w].streamStart > 0

\* C8: the persisted bytesRead, rowsProcessed and rowsInserted of a job never
\* decrease from one write to the next, resumes included.
C8_Monotone ==
  [][\A j \in JobIds :
       /\ jobs'[j].bytesRead >= jobs[j].bytesRead
       /\ jobs'[j].rowsProcessed >= jobs[j].rowsProcessed
       /\ jobs'[j].rowsInserted >= jobs[j].rowsInserted]_vars

\* C9: the persisted bytesRead never exceeds the file size, and a job in a
\* terminal state has bytesRead equal to the file size exactly when it is
\* COMPLETED.
C9_BytesVsStatus ==
  \A j \in JobIds :
    /\ jobs[j].bytesRead <= FileSize(file)
    /\ jobs[j].status \in {"COMPLETED", "FAILED"} =>
         (jobs[j].bytesRead = FileSize(file) <=> jobs[j].status = "COMPLETED")

\* C10: the persisted lastRowHash of a job is null or the sourceHash of a row
\* whose batch flushBatch has committed, wherever the process was killed.
C10_MarkerCommitted ==
  \A j \in JobIds :
    jobs[j].lastRowHash = NoHash \/ jobs[j].lastRowHash \in committed

C10_Witness ==
  /\ phase = "boot"
  /\ \E j \in JobIds : jobs[j].status = "RUNNING" /\ jobs[j].lastRowHash # NoHash
  /\ \E w \in WorkerIds : workers[w].pc = "killed"

\* ------------------------------------------------ events of a worker run --
Terminal(ev) == ev.type \in {"done", "error"}
TerminalOf(w) == {i \in DOMAIN published :
                    published[i].run = w /\ Terminal(published[i].ev)}

\* run w is over for the supervisor: the thread has ended in this process,
\* its handle is released and no callback for it is still in progress
Settled(w) ==
  /\ workers[w].pc \in {"exited", "crashed", "terminated"}
  /\ sup.worker # w
  /\ \A h \in DOMAIN handlers : handlers[h].w # w

\* C11: every worker run gets exactly one terminal event (done or error) on
\* the supervisor's event stream and no event of that run follows it,
\* whichever of the message, 'error' and 'exit' callbacks fire and in
\* whatever order they finish.
C11_OneTerminalEvent ==
  \A w \in WorkerIds :
    /\ Cardinality(TerminalOf(w)) <= 1
    /\ \A i \in TerminalOf(w) : \A k \in DOMAIN published :
         k > i => published[k].run # w
    /\ (Settled(w) /\ phase = "up") => TerminalOf(w) # {}

\* ------------------------------------------------- the progress stream --
Snapshots(s) == {i \in DOMAIN subs[s].frames : subs[s].frames[i].type = "snapshot"}

\* C12: the first frame a subscription delivers is the snapshot frame, and
\* it delivers exactly one snapshot frame, also when the worker publishes
\* events while the snapshot query is in flight.
C12_SnapshotFirst ==
  \A s \in DOMAIN subs :
    /\ subs[s].frames # <<>> => subs[s].frames[1].type = "snapshot"
    /\ Cardinality(Snapshots(s)) <= 1
    /\ subs[s].pc = "live" => Cardinality(Snapshots(s)) = 1

\* nothing the supervisor has heard of is still to be handled
Quiet ==
  /\ handlers = <<>>
  /\ \A w \in WorkerIds : sup.worker = w => inbox[w] = <<>>

\* the frame that tells the end of job j
EndFrame(ev, j) ==
  /\ Terminal(ev)
  /\ ev.jobId = j
  /\ ev.type = "done" <=> jobs[j].status = "COMPLETED"

\* C13: a subscriber never misses the terminal state of the run its
\* snapshot showed: either the snapshot already shows COMPLETED or FAILED,
\* or the subscriber gets the done / error frame of that run.
C13_TerminalSeen ==
  \A s \in DOMAIN subs :
    (/\ subs[s].pc = "live"
     /\ subs[s].snap.jobId # NoJob
     /\ jobs[subs[s].snap.jobId].status \in {"COMPLETED", "FAILED"}
     /\ phase = "up"
     /\ Quiet)
    => \/ subs[s].snap.status \in {"COMPLETED", "FAILED"}
       \/ \E i \in DOMAIN subs[s].frames :
            EndFrame(subs[s].frames[i], subs[s].snap.jobId)

\* the worker events among an observer's frames
EventsOf(s) == SelectSeq(subs[s].frames, LAMBDA f : f.type # "snapshot")

\* what was published from the i-th event on
PublishedFrom(i) == [k \in 1..(Len(published) - i) |-> published[i + k].ev]

IsPrefix(a, b) == Len(a) <= Len(b) /\ a = SubSeq(b, 1, Len(a))

\* every observer has each event published while it was subscribed, once, in order
C14_Delivered ==
  \A s \in DOMAIN subs :
    IF Subscribed(s) THEN EventsOf(s) = PublishedFrom(subs[s].since)
    ELSE IsPrefix(EventsOf(s), PublishedFrom(subs[s].since))

\* no message of a worker is left behind with nobody listening
C14_NoneLost ==
  \A w \in WorkerIds : \A i \in DOMAIN inbox[w] :
    (phase = "up" /\ sup.worker # w) => inbox[w][i].type = "exit"

\* a message leaves the worker's queue only by being published as it is
C14_Forward ==
  \A w \in WorkerIds :
    (/\ inbox[w] # <<>>
     /\ Head(inbox[w]).type # "exit"
     /\ ~IsPrefix(inbox[w], inbox'[w])
     /\ phase' # "boot")
    => /\ inbox'[w] = Tail(inbox[w])
       /\ published' = Append(published, [ev |-> Head(inbox[w]), run |-> w])

Completes(w) ==
  /\ w \in DOMAIN workers
  /\ workers[w].pc = "complete"
  /\ workers'[w].pc = "exited"

\* the counters of the row of w's job are those w holds
CountersPersisted(w, row) ==
  /\ row.rowsProcessed = workers[w].rowsProcessed
  /\ row.rowsInserted = workers[w].rowsInserted
  /\ row.bytesRead = workers[w].absoluteBytesRead

\* before COMPLETED is written the remaining batch is flushed and the forced
\* progress write is done; done is not posted while the row is not COMPLETED
C15_Order ==
  \A w \in DOMAIN workers :
    /\ workers[w].pc = "complete" =>
          /\ workers[w].batch = <<>>
          /\ CountersPersisted(w, jobs[workers[w].jobId])
          /\ workers[w].lastRowHash # NoHash =>
                jobs[workers[w].jobId].lastRowHash = workers[w].lastRowHash
    /\ \A i \in DOMAIN inbox[w] :
          inbox[w][i].type = "done" => jobs[inbox[w][i].jobId].status = "COMPLETED"

\* the row written COMPLETED carries all four final values of the worker
C15_AllFour ==
  \A w \in DOMAIN workers :
    Completes(w) =>
      LET row == jobs'[workers[w].jobId]
      IN /\ row.status = "COMPLETED"
         /\ CountersPersisted(w, row)
         /\ row.lastRowHash = workers[w].lastRowHash

\* C15 as stated: final flush, forced progress write, COMPLETED, then done;
\* hence a COMPLETED row holds the worker's final rowsProcessed, rowsInserted,
\* bytesRead and lastRowHash.
C15_Stated == []C15_Order /\ [][C15_AllFour]_vars

\* the row written COMPLETED carries the worker's counters, and its marker
\* when the worker has one
C15_Counters ==
  \A w \in DOMAIN workers :
    Completes(w) =>
      LET row == jobs'[workers[w].jobId]
      IN /\ row.status = "COMPLETED"
         /\ CountersPersisted(w, row)
         /\ workers[w].lastRowHash # NoHash => row.lastRowHash = workers[w].lastRowHash
         /\ workers[w].lastRowHash = NoHash =>
               row.lastRowHash = jobs[workers[w].jobId].lastRowHash

\* C15 (amended): the same order; a COMPLETED row holds the worker's final
\* rowsProcessed, rowsInserted and bytesRead, and its lastRowHash unless the
\* run wrote no batch, in which case the row keeps the marker it had.
C15_FinalValues == []C15_Order /\ [][C15_Counters]_vars

\* a run ended COMPLETED with rows counted and a marker in the row, its done
\* message posted
C15_Witness ==
  \E w \in DOMAIN workers :
    /\ workers[w].pc = "exited"
    /\ jobs[workers[w].jobId].status = "COMPLETED"
    /\ jobs[workers[w].jobId].rowsProcessed > 0
    /\ jobs[workers[w].jobId].lastRowHash # NoHash
    /\ \E i \in DOMAIN inbox[w] : inbox[w][i].type = "done"

\* the error message run()'s catch hands to markJobFailed
ErrorEvent(w) ==
  [type |-> "error", jobId |-> workers[w].jobId, error |-> workers[w].err]

\* C16: a worker whose main loop failed (parser error, flushBatch, progress
\* write or COMPLETED write rejected) leaves its catch block only by posting
\* the error event, with the row written FAILED with the message or, when
\* that write fails too, with the row left as it was.
C16_ErrorPosted ==
  \A w \in DOMAIN workers :
    (workers[w].pc = "fail" /\ workers'[w] # workers[w] /\ phase' # "boot")
    => /\ workers[w].err \in {"db error", "parse error"}
       /\ inbox'[w] = inbox[w] \o <<ErrorEvent(w), ExitEvent(0)>>
       /\ \/ jobs' = [jobs EXCEPT ![workers[w].jobId] =
                        [@ EXCEPT !.status = "FAILED", !.error = workers[w].err]]
          \/ jobs' = jobs

C16_Safety == [][C16_ErrorPosted]_vars

\* an error event was posted although the FAILED write was lost
C16_Witness ==
  \E w \in DOMAIN workers :
    /\ workers[w].pc = "exited"
    /\ jobs[workers[w].jobId].status = "RUNNING"
    /\ \E i \in DOMAIN inbox[w] : inbox[w][i].type = "error"

\* a later run took over the job of run w
Superseded(w) ==
  \E v \in DOMAIN workers : v > w /\ workers[v].jobId = workers[w].jobId

\* C17: once the supervisor is done with a worker that died on a read
\* error, the job of that worker is FAILED with an error recorded: it is not
\* RUNNING without a worker and it is not COMPLETED (unless a later request
\* started the job again).
C17_ReadErrorFails ==
  \A w \in DOMAIN workers :
    (workers[w].pc = "crashed" /\ Settled(w) /\ phase = "up" /\ ~Superseded(w))
    => /\ jobs[workers[w].jobId].status = "FAILED"
       /\ jobs[workers[w].jobId].error # ""

\* the 'exit' callback h performs the update of failJobIfStillRunning
ExitWrites(h) ==
  /\ h \in DOMAIN handlers
  /\ handlers[h].kind = "exit"
  /\ handlers[h].pc = "update"
  /\ Len(handlers') = Len(handlers)
  /\ handlers'[h].pc = "after"

\* the 'exit' callback h finds the row no longer RUNNING and skips the update
ExitSkips(h) ==
  /\ h \in DOMAIN handlers
  /\ handlers[h].kind = "exit"
  /\ handlers[h].pc = "find"
  /\ Len(handlers') = Len(handlers)
  /\ handlers'[h].pc = "after"

C18_ExitHandler ==
  \A h \in DOMAIN handlers :
    /\ ExitWrites(h) =>
          /\ jobs[handlers[h].jobId].status = "RUNNING"
          /\ jobs'[handlers[h].jobId].status = "FAILED"
          /\ jobs'[handlers[h].jobId].error = WorkerExited
    /\ ExitSkips(h) =>
          /\ jobs[handlers[h].jobId].status \in {"COMPLETED", "FAILED"}
          /\ jobs' = jobs

\* C18: on a non-zero exit the supervisor marks the job FAILED with
\* "Worker exited with code N" if its row is still RUNNING, and leaves status
\* and error as they are if the row is already COMPLETED or FAILED.
C18_NonZeroExit == [][C18_ExitHandler]_vars

\* C19: after a shutdown that found a live worker, once the stream is
\* completed and every callback has returned, the terminated worker's job is
\* FAILED with the shutdown reason, not with the reason of the exit callback,
\* and the worker handle is released.
C19_ShutdownReason ==
  \A w \in DOMAIN workers :
    (workers[w].pc = "terminated" /\ phase = "down" /\ handlers = <<>>)
    => /\ jobs[workers[w].jobId].status = "FAILED"
       /\ jobs[workers[w].jobId].error = ShutdownReason
       /\ sup.worker = NoWorker

\* the step of worker w on which flushBatch returns
FlushCommits(w) ==
  /\ w \in DOMAIN workers
  /\ workers[w].pc \in {"insert", "update"}
  /\ workers[w].batch # <<>>
  /\ workers'[w].pc \in {"ckpt", "loop"}

\* the row of the last item of the batch that has customerId id
LastOccurrence(items, id) ==
  items[CHOOSE i \in DOMAIN items :
          /\ items[i].row.customerId = id
          /\ \A k \in DOMAIN items : items[k].row.customerId = id => k <= i].row

C20_LastWins ==
  \A w \in DOMAIN workers :
    FlushCommits(w) =>
      \A i \in DOMAIN workers[w].batch :
        LET id == workers[w].batch[i].row.customerId
        IN /\ id \in DOMAIN customers'
           /\ customers'[id] = LastOccurrence(workers[w].batch, id)

\* C20: when flushBatch has committed a batch, every customerId of the batch
\* has its one Customer row, and the row carries the values of the last
\* occurrence of that customerId in the batch.
C20_FlushLastWins == [][C20_LastWins]_vars

\* flushBatch of worker w rejects after its existence probe
FlushFails(w) ==
  /\ w \in DOMAIN workers
  /\ workers[w].pc \in {"insert", "update"}
  /\ workers'[w].pc = "fail"

C21_NothingWritten ==
  \A w \in DOMAIN workers :
    FlushFails(w) =>
      \A i \in DOMAIN workers[w].batch :
        LET id == workers[w].batch[i].row.customerId
        IN id \notin workers[w].existing => id \notin DOMAIN customers'

\* C21: when flushBatch fails in the bulk insert or in the update
\* transaction, no Customer row of that batch has been created: an id the
\* existence probe did not find is still absent.
C21_AllOrNothing == [][C21_NothingWritten]_vars

\* the line the loop of worker w takes next, keyed by the file's header row
RecordAt(w) == ParseRecord(Header, AllLines(file)[workers[w].pos + 1])

\* the loop of worker w takes one record
Reads(w) ==
  /\ w \in DOMAIN workers
  /\ workers[w].pc = "loop"
  /\ workers'[w].pos = workers[w].pos + 1

CustomerIdKeys == {"Customer Id", "customer_id", "customerid", "id"}
EmailKeys == {"mail", "email_address", "Email"}

\* the record has a value under one of the names of the field
HasValue(record, keys) == \E k \in keys \cap DOMAIN record : record[k] # ""

\* the lines of the file with a customer id or an e-mail
AdmissibleLines(f) == {i \in DOMAIN f : f[i][1] # "" \/ f[i][3] # ""}

C22_Skip ==
  \A w \in DOMAIN workers :
    (Reads(w) /\ workers[w].seenResumeMarker) =>
      LET record == RecordAt(w)
          byId == HasValue(record, CustomerIdKeys)
          byMail == HasValue(record, EmailKeys)
      IN IF byId \/ byMail
         THEN /\ workers'[w].rowsProcessed = workers[w].rowsProcessed + 1
              /\ Len(workers'[w].batch) = Len(workers[w].batch) + 1
              /\ LET row == workers'[w].batch[Len(workers'[w].batch)].row
                 IN IF byId
                    THEN \E k \in CustomerIdKeys \cap DOMAIN record :
                           row.customerId = record[k]
                    ELSE \E k \in EmailKeys \cap DOMAIN record :
                           row.customerId = ToLower(record[k])
         ELSE /\ workers'[w].rowsProcessed = workers[w].rowsProcessed
              /\ workers'[w].batch = workers[w].batch
              /\ workers'[w].pc = "loop"
              /\ customers' = customers
              /\ jobs' = jobs

C22_Count ==
  \A w \in DOMAIN workers :
    workers[w].pc = "complete" =>
      /\ workers[w].rowsProcessed = Cardinality(AdmissibleLines(file))
      /\ jobs[workers[w].jobId].rowsProcessed = Cardinality(AdmissibleLines(file))

\* C22: a row of the file is admitted exactly when it has a customer id or
\* an e-mail, its identifier being the customer id, else the lower-cased
\* e-mail; a row with neither changes no counter, no batch and no table and
\* does not fail the run, and a run reaches its COMPLETED write with
\* rowsProcessed equal to the number of admissible rows of the file.
C22_Admission == []C22_Count /\ [][C22_Skip]_vars

\* the batch size the worker was handed
Requested(w) ==
  IF workers[w].workerData.batchSize = Undefined THEN DefaultBatchSize
  ELSE workers[w].workerData.batchSize

\* a commit of worker w holds size rows when full ones hold b
CommitOf(w, b) ==
  LET n == Cardinality(AdmissibleLines(file))
      size == Len(workers[w].batch)
  IN /\ ~workers[w].final => size = b /\ workers[w].rowsProcessed % b = 0
     /\ workers[w].final => size = n % b /\ size > 0 /\ workers[w].rowsProcessed = n
     /\ workers'[w].rowsInserted = workers[w].rowsProcessed

\* while a commit is outstanding the loop takes no record
OneOutstanding(w) ==
  workers[w].pc \in {"probe", "insert"} => workers'[w].pos = workers[w].pos

\* the run ends with every row counted and the job COMPLETED at 100 percent
Finished ==
  \A w \in DOMAIN workers :
    workers[w].pc = "exited" =>
      LET n == Cardinality(AdmissibleLines(file))
          job == jobs[workers[w].jobId]
      IN /\ job.status = "COMPLETED"
         /\ job.rowsProcessed = n
         /\ job.rowsInserted = n
         /\ getProgressSnapshot(RowCopy(workers[w].jobId), {n}, {}, 1, 0).percent = Rat(100, 1)

C23_PerRequest ==
  \A w \in DOMAIN workers :
    /\ FlushCommits(w) => CommitOf(w, Requested(w))
    /\ OneOutstanding(w)

\* C23 as stated: commits of b, ..., b, n mod b rows for the requested b
C23_Stated == []Finished /\ [][C23_PerRequest]_vars

C23_PerEffective ==
  \A w \in DOMAIN workers :
    /\ FlushCommits(w) => CommitOf(w, Max(MinBatchSize, Requested(w)))
    /\ OneOutstanding(w)

\* C23 (amended): a fresh import of n admissible rows with distinct new ids
\* commits batches of e, ..., e, n mod e rows, one at a time, where e is the
\* requested batch size raised to the worker's floor, and ends COMPLETED with
\* rowsProcessed = rowsInserted = n and percent 100 for totalRows = n.
C23_Batches == []Finished /\ [][C23_PerEffective]_vars

\* five rows in batches of two: the last commit, of one row, is done
C23_Witness ==
  \E w \in DOMAIN workers :
    /\ Len(file) = 5
    /\ workers[w].batchSize = 2
    /\ workers[w].final
    /\ workers[w].pc = "ckpt"
    /\ workers[w].rowsInserted = 5

\* the rows still to do for a response, never below 0
Remaining(r) == IF r.totalRows > r.rowsProcessed THEN r.totalRows - r.rowsProcessed ELSE 0

\* k is the smallest integer with k * rate >= rows
IsCeilOf(k, rows, rate) ==
  /\ k * rate.n >= rows * rate.d
  /\ (k - 1) * rate.n < rows * rate.d

\* C24: in every response of the progress endpoint disableSync is true exactly
\* when status is RUNNING, percent lies in [0, 100], the rate is 0 when
\* elapsedSec is 0, and etaSec is null when the rate is not positive and else
\* the ceiling of the remaining rows (never below 0) over the rate.
C24_Derived ==
  progress.type = "snapshot" =>
    /\ progress.disableSync <=> progress.status = "RUNNING"
    /\ RatLeq(Rat(0, 1), progress.percent)
    /\ RatLeq(progress.percent, Rat(100, 1))
    /\ progress.elapsedSec = 0 => progress.rateRowsPerSec.n = 0
    /\ progress.rateRowsPerSec.n <= 0 => progress.etaSec = Null
    /\ progress.rateRowsPerSec.n > 0 =>
         /\ progress.etaSec # Null
         /\ IsCeilOf(progress.etaSec, Remaining(progress), progress.rateRowsPerSec)

\* a RUNNING job past the totalRows it was asked for: percent is cut to 100
\* and nothing remains
C24_Witness ==
  /\ progress.type = "snapshot"
  /\ progress.status = "RUNNING"
  /\ progress.rowsProcessed > progress.totalRows
  /\ progress.totalRows > 0
  /\ progress.percent = Rat(100, 1)
  /\ progress.etaSec = 0

\* the job a step of the endpoint selects, if it selects one
Selects ==
  /\ progress.type \in {"none", "snapshot", "latest"}
  /\ progress'.type \in {"recent", "snapshot"}
  /\ progress' # progress

SelectedId == IF progress'.type = "recent" THEN progress'.job.id ELSE progress'.jobId

C25_Selection ==
  Selects =>
    IF RunningIds # {} THEN SelectedId \in RunningIds
    ELSE IF recent # <<>> THEN SelectedId = recent[1]
    ELSE /\ SelectedId = NoJob
         /\ progress'.status = "idle"

\* the response describes the job that was selected
C25_Describes ==
  progress.type = "recent" /\ progress'.type = "snapshot" =>
    /\ progress'.jobId = progress.job.id
    /\ progress'.status = progress.job.status
    /\ progress'.rowsProcessed = progress.job.rowsProcessed

C25_Response ==
  progress.type = "snapshot" =>
    /\ progress.jobId = NoJob =>
         /\ progress.status = "idle"
         /\ progress.rowsProcessed = 0
         /\ progress.rowsInserted = 0
         /\ progress.bytesRead = 0
         /\ ~progress.disableSync
    /\ progress.jobId # NoJob => progress.jobId \in DOMAIN jobs
    /\ progress.recentCustomers > 0 => progress.status \in {"RUNNING", "COMPLETED"}
    /\ progress.recentCustomers <= Min(RecentCap, Max(1, progress.recentLimit))

\* C25: the progress endpoint selects a RUNNING job if one exists, else the
\* most recently updated job, else answers the idle snapshot (no job id, zero
\* counters, disableSync false); recentCustomers is non-empty only for a
\* RUNNING or COMPLETED job and holds at most min(cap, max(1, recentLimit)) rows.
C25_Selects == []C25_Response /\ [][C25_Selection /\ C25_Describes]_vars

\* a call of startImport ends in this step on a path that failed the checks
Rejects(c) ==
  /\ c \in DOMAIN calls' \ DOMAIN calls
  /\ calls'[c].resp.kind = "rejected"

C26_Rejected ==
  \A c \in DOMAIN calls' :
    Rejects(c) =>
      /\ calls'[c].resp.status = 400
      /\ jobs' = jobs
      /\ sup' = sup
      /\ workers' = workers

\* C26: a startImport whose file path (given or fallen back to) is empty, does
\* not exist or is not a regular file is answered 400 and leaves the
\* ImportJob rows and the supervisor's worker handle as they were.
C26_BadPath == [][C26_Rejected]_vars

\* the two records hold the same cell under every header name
SameCells ==
  \A h \in Range(Header) :
    CellOf(mapped.columns[1], mapped.lines[1], h)
      = CellOf(mapped.columns[2], mapped.lines[2], h)

\* C27: two parsed records that differ only in the letter case of their
\* header names or in the order of their keys have the same sourceHash.
C27_SameHash ==
  mapped.type = "pair" /\ SameCells => mapped.hashes[1] = mapped.hashes[2]

\* the update transaction of worker w's batch rejects in this step
UpdateRejects(w) ==
  /\ w \in DOMAIN workers
  /\ workers[w].pc = "update"
  /\ workers'[w].err = "db error"
  /\ workers[w].err # "db error"

C28_Retried ==
  \A w \in DOMAIN workers :
    UpdateRejects(w) =>
      /\ workers'[w].pc # "fail"
      /\ jobs'[workers[w].jobId].status = "RUNNING"

\* C28: the first rejection of a batch's update transaction by a retryable
\* storage error does not fail the job: the commit is tried again.
C28_RetryBounded == [][C28_Retried]_vars

\* the record worker w reads in this step leaves counters and batch alone
Uncounted(w) ==
  /\ workers'[w].rowsProcessed = workers[w].rowsProcessed
  /\ workers'[w].batch = workers[w].batch
  /\ customers' = customers
  /\ jobs' = jobs

C29_Scan ==
  \A w \in DOMAIN workers :
    Reads(w) =>
      LET hash == HashOf(RecordAt(w))
      IN IF ~workers[w].seenResumeMarker
         THEN /\ Uncounted(w)
              /\ workers'[w].seenResumeMarker <=> (hash # NoHash /\ hash = workers[w].marker)
         ELSE hash # NoHash =>
                /\ workers'[w].rowsProcessed = workers[w].rowsProcessed + 1
                /\ Len(workers'[w].batch) = Len(workers[w].batch) + 1

\* a run starts past the marker exactly when it was handed none
C29_Start ==
  \A w \in DOMAIN workers :
    workers[w].pc = "loop" /\ workers[w].pos = workers[w].streamStart + 1 =>
      (workers[w].seenResumeMarker <=> workers[w].marker = NoHash)

\* C29: on a resume with a marker every record up to and including the first
\* one whose sourceHash equals the marker adds nothing to rowsProcessed, the
\* batch or the tables, and every admissible record after it is counted and
\* batched; with no marker counting begins with the first admissible record.
C29_MarkerScan == []C29_Start /\ [][C29_Scan]_vars

\* the record the parser of worker w emits for the line it reads: keyed by
\* the first line of the stream, which begins at streamStart
Emitted(w) ==
  ParseRecord(AllLines(file)[workers[w].streamStart + 1],
              AllLines(file)[workers[w].pos + 1])

C30_Keyed ==
  \A w \in DOMAIN workers :
    Reads(w) /\ workers[w].streamStart > 0 =>
      /\ DOMAIN Emitted(w) = Range(Header)
      /\ Emitted(w) = RecordAt(w)

\* C30: a worker that opens the file at a non-zero offset emits records keyed
\* by the column names of the file's header row; no data line is taken as
\* the header.
C30_HeaderKept == [][C30_Keyed]_vars

\* worker w posts a progress event in this step
PostsProgress(w) ==
  /\ w \in DOMAIN workers
  /\ workers[w].pc = "ckpt"
  /\ workers'[w].pc \in {"loop", "complete"}

\* the progress event maybePersistProgress posts after its write
ProgressEvent(w) ==
  [rowsProcessed |-> workers[w].rowsProcessed,
   rowsInserted |-> workers[w].rowsInserted,
   bytesRead |-> workers[w].absoluteBytesRead,
   lastRowHash |-> workers[w].lastRowHash]

C31_Durable ==
  \A w \in DOMAIN workers :
    PostsProgress(w) =>
      LET row == jobs'[workers[w].jobId]
          ev == ProgressEvent(w)
      IN /\ row.rowsProcessed = ev.rowsProcessed
         /\ row.rowsInserted = ev.rowsInserted
         /\ row.bytesRead = ev.bytesRead
         /\ ev.lastRowHash # NoHash => row.lastRowHash = ev.lastRowHash

\* a progress event that reached the parent is the one the step posted
C31_Posted ==
  \A w \in DOMAIN workers :
    PostsProgress(w) /\ Len(inbox'[w]) > Len(inbox[w]) =>
      LET m == inbox'[w][Len(inbox'[w])]
      IN /\ m.type = "progress"
         /\ m.bytesRead = ProgressEvent(w).bytesRead
         /\ m.rowsProcessed = ProgressEvent(w).rowsProcessed

\* C31: every progress event is posted after the checkpoint write of the same
\* call and carries the bytesRead, rowsProcessed, rowsInserted and lastRowHash
\* that this write made durable in the job row.
C31_EventIsCheckpoint == [][C31_Durable /\ C31_Posted]_vars

\* the held worker has reported done or error or has exited, or its stop
\* has been requested
Draining ==
  /\ isRunning
  /\ \/ ~Live(sup.worker)
     \/ \E h \in DOMAIN handlers : handlers[h].kind = "stop" /\ handlers[h].w = sup.worker

Released == ~isRunning /\ sup.currentJobId = NoJob

\* a call is answered with the conflict in this step
AnswersConflict ==
  \E c \in DOMAIN calls :
    /\ calls[c].resp.kind # "conflict"
    /\ calls'[c].resp.kind = "conflict"

\* C32: once the held worker has reported done or error, has exited or is
\* being stopped, the supervisor eventually releases the handle (isRunning()
\* false, current job id null); a startImport is answered with the conflict
\* only while a handle is held.
C32_Release ==
  /\ Draining ~> Released
  /\ [](~isRunning => sup.currentJobId = NoJob)
  /\ [][AnswersConflict => isRunning]_vars

\* the first worker is gone, its handle is released, and the next call has
\* read the table without meeting a conflict
C32_Witness ==
  /\ Released
  /\ \E w \in DOMAIN workers : workers[w].pc = "exited"
  /\ \E c \in DOMAIN calls : calls[c].pc = "created" /\ c > 1

\* ------------------------------------- UnitOfWorkService.executeWithRetry --
\* The largest maxRetries a caller passes.
MaxRetries == 3

\* error.code of a thrown error; NoCode stands for an error without a code
NoCode == "none"
ErrorCodes == {"P2034", "P1001", "P2002", NoCode}

\* error.message as its words; the empty sequence is an error without message
ErrorMessages == {<<"deadlock", "found">>, <<"Deadlock", "detected">>,
                  <<"unique", "constraint">>, <<>>}

\* what one run of the transaction callback ends with
Outcomes ==
  {[ok |-> TRUE, value |-> 1]}
    \cup {[ok |-> FALSE, code |-> c, message |-> m] :
            c \in ErrorCodes, m \in ErrorMessages}

includes(message, word) == \E i \in DOMAIN message : message[i] = word

retryableCodes == {"P2034", "P2024", "P1008", "P1001", "P1002", "P1017"}

isRetryableError(error) ==
  IF error.code = NoCode THEN FALSE
  ELSE LET isDeadlock == /\ error.message # <<>>
                         /\ \/ includes(error.message, "deadlock")
                            \/ includes(error.message, "Deadlock")
       IN error.code \in retryableCodes \/ isDeadlock

MaxRetriesExceeded ==
  [ok |-> FALSE, code |-> NoCode, message |-> <<"Max", "retries", "exceeded">>]

\* executeWithRetry(callback, maxRetries) is called: the loop is entered, or
\* left at once when its condition fails for attempt = 1
RetryCall ==
  /\ retry.pc = "none"
  /\ \E n \in 0..MaxRetries :
       retry' = IF 1 <= n
                THEN [pc |-> "attempt", maxRetries |-> n, attempt |-> 1,
                      tried |-> <<>>, outcome |-> NotCalled]
                ELSE [pc |-> "thrown", maxRetries |-> n, attempt |-> 1,
                      tried |-> <<>>, outcome |-> MaxRetriesExceeded]
  /\ UNCHANGED <<file, progress, mapped, buffer, jobs, recent, customers, sup,
                 workers, inbox, calls, phase, bootJob, lastEvent, budget,
                 committed, obs>>

\* the loop body with a catch block that rethrows non-retryable errors only
RetryAttemptNoLast ==
  /\ retry.pc = "attempt"
  /\ \E o \in Outcomes :
       LET tried == Append(retry.tried, o)
       IN retry' =
            IF o.ok
            THEN [retry EXCEPT !.pc = "returned", !.tried = tried, !.outcome = o]
            ELSE IF ~isRetryableError(o)
            THEN [retry EXCEPT !.pc = "thrown", !.tried = tried, !.outcome = o]
            ELSE [retry EXCEPT !.pc = "delay", !.tried = tried]
  /\ UNCHANGED <<file, progress, mapped, buffer, jobs, recent, customers, sup,
                 workers, inbox, calls, phase, bootJob, lastEvent, budget,
                 committed, obs>>

\* one pass of the loop body: the transaction runs the callback, and the
\* catch block decides between rethrowing and the backoff delay
RetryAttempt ==
  /\ retry.pc = "attempt"
  /\ \E o \in Outcomes :
       LET isLastAttempt == retry.attempt = retry.maxRetries
           tried == Append(retry.tried, o)
       IN retry' =
            IF o.ok
            THEN [retry EXCEPT !.pc = "returned", !.tried = tried, !.outcome = o]
            ELSE IF isLastAttempt \/ ~isRetryableError(o)
            THEN [retry EXCEPT !.pc = "thrown", !.tried = tried, !.outcome = o]
            ELSE [retry EXCEPT !.pc = "delay", !.tried = tried]
  /\ UNCHANGED <<file, progress, mapped, buffer, jobs, recent, customers, sup,
                 workers, inbox, calls, phase, bootJob, lastEvent, budget,
                 committed, obs>>

\* the backoff timer fires: attempt++ and the loop condition is tested again
RetryDelay ==
  /\ retry.pc = "delay"
  /\ retry' =
       IF retry.attempt + 1 <= retry.maxRetries
       THEN [retry EXCEPT !.pc = "attempt", !.attempt = @ + 1]
       ELSE [retry EXCEPT !.pc = "thrown", !.attempt = @ + 1,
                          !.outcome = MaxRetriesExceeded]
  /\ UNCHANGED <<file, progress, mapped, buffer, jobs, recent, customers, sup,
                 workers, inbox, calls, phase, bootJob, lastEvent, budget,
                 committed, obs>>

NextRetry == RetryCall \/ RetryAttempt \/ RetryDelay

\* the event loop runs the continuation of every await that settles
SpecRetry ==
  /\ InitWith(SupFiles, {MinBatchSize}, 0, 0, 0, 0)
  /\ [][NextRetry]_vars
  /\ WF_vars(NextRetry)


\* ---------------------------------------------------------------- C33 ----
RetryDone == retry.pc \in {"returned", "thrown"}

\* what the call has settled with is the outcome of attempt i, and attempt i
\* was the last one made
SettledBy(i, pc) ==
  /\ i = Len(retry.tried)
  /\ retry.pc = pc
  /\ retry.outcome = retry.tried[i]

\* C33: executeWithRetry(callback, maxRetries) makes at most maxRetries
\* attempts and then settles: a successful attempt is the last one and its
\* result is returned, a non-retryable error is rethrown after the attempt
\* that raised it, and a retryable error of attempt maxRetries is rethrown;
\* every call that was made settles.
C33_Attempts ==
  retry.pc # "none" =>
    /\ Len(retry.tried) <= retry.maxRetries
    /\ retry.pc = "returned" => retry.tried # <<>>
    /\ \A i \in DOMAIN retry.tried :
         LET o == retry.tried[i]
         IN /\ o.ok => SettledBy(i, "returned")
            /\ ~o.ok /\ ~isRetryableError(o) => SettledBy(i, "thrown")
            /\ ~o.ok /\ i = retry.maxRetries => SettledBy(i, "thrown")
            /\ ~o.ok /\ isRetryableError(o) /\ i < retry.maxRetries
                 => ~SettledBy(i, "thrown")

C33_Terminates ==
  /\ []C33_Attempts
  /\ (retry.pc # "none") ~> RetryDone

\* the final attempt failed with a retryable error after two retries
C33_Witness ==
  /\ retry.pc = "thrown"
  /\ retry.maxRetries = MaxRetries
  /\ Len(retry.tried) = MaxRetries
  /\ \A i \in DOMAIN retry.tried :
       ~retry.tried[i].ok /\ isRetryableError(retry.tried[i])
  /\ retry.outcome = retry.tried[MaxRetries]


\* ---------------------------------------------------------------- C34 ----
\* the worker threads that can still write to the database
Writers == {w \in DOMAIN workers : Live(w)}

\* the process itself ends in this step
ProcessDies == phase # "boot" /\ phase' = "boot"

\* this step is the end of a suspended callback registered for worker w
CallbackEnds(w) ==
  \E h \in DOMAIN handlers :
    /\ handlers[h].pc = "after"
    /\ handlers[h].w = w
    /\ handlers' = Without(h)

\* this step is a listener of worker w taking one of its events
ListenerRuns(w) ==
  /\ w \in DOMAIN inbox
  /\ inbox[w] # <<>>
  /\ inbox'[w] = Tail(inbox[w])

\* the step that clears the handle belongs to the worker the handle held
C34_Cleared ==
  (isRunning /\ sup'.worker = NoWorker /\ ~ProcessDies)
    => CallbackEnds(sup.worker) \/ ListenerRuns(sup.worker)

\* C34: at most one worker thread that can still write exists, every such
\* thread is the one the supervisor holds, and the handle is cleared only by
\* a listener or a callback of the worker it refers to, never by one that
\* belongs to an earlier worker.
C34_OneWriter ==
  /\ [](Cardinality(Writers) <= 1)
  /\ [](\A w \in Writers : sup.worker = w)
  /\ [][C34_Cleared]_vars


\* ---------------------------------------------------------------- C35 ----
TerminalStatuses == {"COMPLETED", "FAILED"}

\* no step changes the status of a row that is COMPLETED or FAILED
C35_Absorbing ==
  \A j \in DOMAIN jobs :
    jobs[j].status \in TerminalStatuses => jobs'[j].status = jobs[j].status

\* C35: COMPLETED and FAILED are absorbing: once a job row holds one of
\* them no later write changes it, neither the update of
\* failJobIfStillRunning nor the worker's markJobCompleted or markJobFailed.
C35_TerminalKept == [][C35_Absorbing]_vars


\* ---------------------------------------------------------------- C36 ----
\* call c of startImport has answered with an error
Failed(c) == calls[c].pc = "done" /\ calls[c].resp.kind # "ok"

\* C36: a startImport call that answers with an error (the path is
\* rejected, a worker is running for the job found, or the supervisor
\* refuses to spawn) has created no row in table ImportJob.
C36_NoRowOnError ==
  \A c \in DOMAIN calls : Failed(c) => calls[c].job = NoJob


\* ---------------------------------------------------------------- C37 ----
\* row j of table ImportJob exists and is RUNNING
Running(j) == j \in DOMAIN jobs /\ jobs[j].status = "RUNNING"

\* row j is COMPLETED or FAILED
Ended(j) == j \in DOMAIN jobs /\ jobs[j].status \in TerminalStatuses

\* C37: when the worker threads, the supervisor's callbacks and the boot
\* sequence after a crash all get to run, every ImportJob row that is
\* RUNNING is COMPLETED or FAILED in the end.
C37_Ends == \A j \in 1..LiveCalls : Running(j) ~> Ended(j)


\* ---------------------------------------------------------------- C38 ----
\* worker w was started with a resume marker
Resumed(w) == Live(w) /\ workers[w].marker # NoHash

\* the line whose row hashes to the marker of w is in the part of the file
\* that the stream of w replays
InWindow(w) ==
  \E o \in workers[w].streamStart..(FileSize(file) - 1) :
    HashOf(ParseRecord(Header, AllLines(file)[o + 1])) = workers[w].marker

\* C38: the marker row of every resumed run lies in the window the run
\* replays, and a resumed run that is about to mark its job COMPLETED has
\* matched its marker.
C38_MarkerMatched ==
  \A w \in DOMAIN workers :
    Resumed(w) =>
      /\ InWindow(w)
      /\ workers[w].pc = "complete" => workers[w].seenResumeMarker


\* ---------------------------------------------------------------- C39 ----
\* the two row counters of a checkpoint or of a progress event
Ordered(r) == 0 <= r.rowsInserted /\ r.rowsInserted <= r.rowsProcessed

\* C39: in every row of ImportJob and in every progress event, posted by a
\* worker or forwarded by the supervisor, 0 <= rowsInserted <= rowsProcessed,
\* for first runs and for resumed runs alike.
C39_Counters ==
  /\ \A j \in DOMAIN jobs : Ordered(jobs[j])
  /\ \A w \in DOMAIN inbox : \A i \in DOMAIN inbox[w] :
       inbox[w][i].type = "progress" => Ordered(inbox[w][i])
  /\ \A i \in DOMAIN published :
       published[i].ev.type = "progress" => Ordered(published[i].ev)

\* a resumed run has replayed rows, flushed a batch that repeats a customer
\* and written a checkpoint with fewer rows inserted than processed
C39_Witness ==
  \E w \in DOMAIN workers :
    /\ Resumed(w)
    /\ workers[w].streamStart > 0 \/ workers[w].workerData.resume.rowsProcessed > 0
    /\ workers[w].pc \in {"loop", "complete"}
    /\ workers[w].wrote
    /\ jobs[workers[w].jobId].rowsInserted > workers[w].workerData.resume.rowsInserted
    /\ jobs[workers[w].jobId].rowsInserted < jobs[workers[w].jobId].rowsProcessed


\* ------------------------------------------------------------ BatchBuffer --
\* The largest maxSize, the number of items added in all, the number of
\* calls made from outside, and the longest list handed to addMany.
MaxSize == 6
MaxItems == 8
MaxOps == 5
MaxMany == 4

\* how the flush function settles: after one tick of the microtask queue,
\* or on an I/O event, which the event loop delivers when the queue is empty
FlushFns == {"micro", "io"}

\* who awaits a call: nobody (a call from outside that is not awaited), add()
\* (add: TRUE), and behind add() the loop of addMany with rest items to go
Top == [add |-> FALSE, many |-> FALSE, rest |-> 0]

\* a continuation in the microtask queue or registered on promise p
Task(k, p, c) == [k |-> k, p |-> p, add |-> c.add, many |-> c.many, rest |-> c.rest]
CallerOf(t) == [add |-> t.add, many |-> t.many, rest |-> t.rest]

Enqueue(b, t) == [b EXCEPT !.queue = Append(@, t)]

\* add() resolves: the loop of addMany, if any, continues one tick later
AddReturned(b, c) ==
  IF c.many THEN Enqueue(b, Task("next", 0, [c EXCEPT !.add = FALSE])) ELSE b

\* flush() resolves: add(), if it awaits the call, continues one tick later
FlushReturned(b, c) ==
  IF c.add THEN Enqueue(b, Task("addret", 0, c)) ELSE b

\* flush() from "const items = this.buf" to "await this.flushing": the
\* buffer is swapped, the flush function is called, the promise of the
\* wrapper is stored and awaited
StartFlush(b, c) ==
  LET p == Len(b.fns) + 1
      started == [b EXCEPT
        !.buf = <<>>,
        !.fns = Append(@, [items |-> b.buf, settled |-> FALSE, done |-> FALSE]),
        !.flushing = p,
        !.waiters = Append(@, <<Task("own", p, c)>>)]
  IN IF b.flushFn = "micro" THEN Enqueue(started, Task("fn", p, Top)) ELSE started

\* flush() up to its first await or its return
flush(b, c) ==
  IF b.buf = <<>> THEN FlushReturned(b, c)
  ELSE IF b.flushing # 0
  THEN IF b.fns[b.flushing].done
       THEN Enqueue(b, Task("wait", 0, c))
       ELSE [b EXCEPT !.waiters[b.flushing] = Append(@, Task("wait", 0, c))]
  ELSE StartFlush(b, c)

\* add(item) up to its await or its return; items are numbered as added
add(b, c) ==
  LET pushed == [b EXCEPT !.buf = Append(@, b.added + 1), !.added = @ + 1]
  IN IF Len(pushed.buf) >= b.maxSize
     THEN flush(pushed, [c EXCEPT !.add = TRUE])
     ELSE AddReturned(pushed, c)

\* the continuation t, taken from the head of the microtask queue
RunTask(b, t) ==
  CASE t.k = "fn" ->
         Enqueue([b EXCEPT !.fns[t.p].settled = TRUE], Task("iife", t.p, Top))
    [] t.k = "iife" ->
         [b EXCEPT !.fns[t.p].done = TRUE,
                   !.queue = @ \o b.waiters[t.p],
                   !.waiters[t.p] = <<>>]
    [] t.k = "own" ->
         FlushReturned([b EXCEPT !.flushing = 0], CallerOf(t))
    [] t.k = "wait" ->
         IF b.buf = <<>> THEN FlushReturned(b, CallerOf(t))
         ELSE StartFlush(b, CallerOf(t))
    [] t.k = "addret" -> AddReturned(b, CallerOf(t))
    [] t.k = "next" ->
         IF t.rest = 0 THEN b
         ELSE add(b, [CallerOf(t) EXCEPT !.rest = @ - 1])

BufferFrame ==
  UNCHANGED <<file, progress, mapped, retry, jobs, recent, customers, sup,
              workers, inbox, calls, phase, bootJob, lastEvent, budget,
              committed, obs>>

\* new BatchBuffer({maxSize, flush}), in a block of synchronous caller code
BufferNew ==
  /\ buffer.pc = "none"
  /\ \E maxSize \in 1..MaxSize, fn \in FlushFns :
       buffer' = [pc |-> "built", mode |-> "sync", maxSize |-> maxSize,
                  flushFn |-> fn, buf |-> <<>>, flushing |-> 0, fns |-> <<>>,
                  waiters |-> <<>>, queue |-> <<>>, added |-> 0, promised |-> 0,
                  ops |-> 0]
  /\ BufferFrame

\* caller code is running and may make one more call
Calling == buffer.pc = "built" /\ buffer.mode = "sync" /\ buffer.ops < MaxOps

\* add(item), not awaited by the caller
BufferAdd ==
  /\ Calling
  /\ buffer.promised < MaxItems
  /\ buffer' = add([buffer EXCEPT !.ops = @ + 1, !.promised = @ + 1], Top)
  /\ BufferFrame

\* addMany(items), up to the await of its first add
BufferAddMany ==
  /\ Calling
  /\ \E n \in 1..MaxMany :
       /\ buffer.promised + n <= MaxItems
       /\ buffer' = add([buffer EXCEPT !.ops = @ + 1, !.promised = @ + n],
                        [add |-> FALSE, many |-> TRUE, rest |-> n - 1])
  /\ BufferFrame

\* flush(), not awaited by the caller
BufferFlush ==
  /\ Calling
  /\ buffer' = flush([buffer EXCEPT !.ops = @ + 1], Top)
  /\ BufferFrame

\* the caller's code returns to the event loop, which drains the microtasks
BufferYield ==
  /\ buffer.pc = "built"
  /\ buffer.mode = "sync"
  /\ buffer' = [buffer EXCEPT !.mode = "drain"]
  /\ BufferFrame

\* the microtask at the head of the queue runs
BufferTask ==
  /\ buffer.pc = "built"
  /\ buffer.mode = "drain"
  /\ buffer.queue # <<>>
  /\ buffer' = RunTask([buffer EXCEPT !.queue = Tail(@)], Head(buffer.queue))
  /\ BufferFrame

\* the queue is empty: an I/O event settles the promise of a flush function
BufferIoDone ==
  /\ buffer.pc = "built"
  /\ buffer.mode = "drain"
  /\ buffer.queue = <<>>
  /\ \E p \in DOMAIN buffer.fns :
       /\ ~buffer.fns[p].settled
       /\ buffer' = Enqueue([buffer EXCEPT !.fns[p].settled = TRUE],
                            Task("iife", p, Top))
  /\ BufferFrame

\* the queue is empty: an event runs caller code again
BufferWake ==
  /\ buffer.pc = "built"
  /\ buffer.mode = "drain"
  /\ buffer.queue = <<>>
  /\ buffer.ops < MaxOps
  /\ buffer' = [buffer EXCEPT !.mode = "sync"]
  /\ BufferFrame

NextBuffer ==
  \/ BufferNew
  \/ BufferAdd
  \/ BufferAddMany
  \/ BufferFlush
  \/ BufferYield
  \/ BufferTask
  \/ BufferIoDone
  \/ BufferWake

SpecBuffer == InitWith(SupFiles, {MinBatchSize}, 0, 0, 0, 0) /\ [][NextBuffer]_vars

\* ---------------------------------------------------------------- C40 ----
\* the calls of the flush function whose promise has not settled
InFlight == {p \in DOMAIN buffer.fns : ~buffer.fns[p].settled}

\* the items handed to the flush function so far, call after call
RECURSIVE Passed(_)
Passed(n) == IF n = 0 THEN <<>> ELSE Passed(n - 1) \o buffer.fns[n].items

\* C40: with a flush function that succeeds, at most one call of it is in
\* flight at any time, and the items handed to it, followed by the items
\* still buffered, are the items added, each once and in the order added.
C40_OneFlush ==
  buffer.pc = "built" =>
    /\ Cardinality(InFlight) <= 1
    /\ Passed(Len(buffer.fns)) \o buffer.buf = [i \in 1..buffer.added |-> i]


====
